---------------------------- MODULE Spec2Model ----------------------------
(***************************************************************************)
(* Big Two (yeci226/big-two): the hand classifier, the hand comparator,    *)
(* the rank-based bots and the host's turn processing, as state machines.  *)
(*                                                                         *)
(* A Card is the record [rank, suit]; the source's id field is             *)
(* `${rank}-${suit}` (createDeck), so two cards have the same id exactly   *)
(* when they are the same record.  A Card[] is a sequence.  A value of     *)
(* type `Hand | null` is a Hand record, null being NullHand; a value of    *)
(* type `Card[] | null` is a sequence, null being NullCards.               *)
(***************************************************************************)
EXTENDS Integers, Sequences, FiniteSets, TLC

VARIABLES
    pc,                 \* which function the last step applied ("idle": none yet)
    args,               \* the arguments of the function under check
    ret,                \* what it returned
    players,            \* GameStatus.players: seat -> [id, hand, isBot, afkCount]
    currentPlayerIndex, \* GameStatus.currentPlayerIndex
    lastPlayedHand,     \* GameStatus.lastPlayedHand (NullHand: null)
    lastPlayerId,       \* GameStatus.lastPlayerId (NoId: null)
    passCount,          \* GameStatus.passCount
    winnerId,           \* GameStatus.winnerId (NoId: null)
    isStarted           \* GameStatus.isStarted

callVars == <<pc, args, ret>>
gameVars == <<players, currentPlayerIndex, lastPlayedHand, lastPlayerId,
              passCount, winnerId, isStarted>>
vars == <<pc, args, ret, players, currentPlayerIndex, lastPlayedHand,
          lastPlayerId, passCount, winnerId, isStarted>>

(***************************************************************************)
(* types.ts                                                                *)
(***************************************************************************)
Suits == {"Spades", "Hearts", "Diamonds", "Clubs"}

SuitOrder ==
    [s \in Suits |->
        CASE s = "Spades" -> 3
          [] s = "Hearts" -> 2
          [] s = "Diamonds" -> 1
          [] s = "Clubs" -> 0]

\* the 13 rank strings, in the order createDeck and the enumerators list them
allRanks == <<"3", "4", "5", "6", "7", "8", "9", "10", "J", "Q", "K", "A", "2">>

RankSet == {allRanks[i] : i \in 1..Len(allRanks)}

RankOrder ==
    [r \in RankSet |->
        CASE r = "3" -> 0
          [] r = "4" -> 1
          [] r = "5" -> 2
          [] r = "6" -> 3
          [] r = "7" -> 4
          [] r = "8" -> 5
          [] r = "9" -> 6
          [] r = "10" -> 7
          [] r = "J" -> 8
          [] r = "Q" -> 9
          [] r = "K" -> 10
          [] r = "A" -> 11
          [] r = "2" -> 12]

HandTypes == {"Single", "Pair", "Straight", "FullHouse", "FourOfAKind",
              "StraightFlush", "Dragon", "None"}

CardOf(r, s) == [rank |-> r, suit |-> s]

Cards == {CardOf(r, s) : r \in RankSet, s \in Suits}

HandOf(cs, t, n) == [cards |-> cs, type |-> t, strength |-> n]

\* null of type Hand | null
NullHand == [cards |-> <<>>, type |-> "null", strength |-> 0]

\* a TypeError raised while classifying (reading .suit of undefined)
ThrownHand == [cards |-> <<>>, type |-> "TypeError", strength |-> 0]

\* null of type Card[] | null
NullCards == <<[rank |-> "null", suit |-> "null"]>>

\* null of type string | null (lastPlayerId, winnerId)
NoId == "null"

(***************************************************************************)
(* logic.ts: card weight and sorting                                       *)
(***************************************************************************)
getCardWeight(card) == RankOrder[card.rank] * 10 + SuitOrder[card.suit]

sortCards(cards) ==
    SortSeq(cards, LAMBDA a, b : getCardWeight(a) < getCardWeight(b))

Range(s) == {s[i] : i \in 1..Len(s)}

\* index of the first card of rank r in cards (Array.prototype.find); 0: undefined
FirstOfRank(cards, r) ==
    IF \E i \in 1..Len(cards) : cards[i].rank = r
    THEN CHOOSE i \in 1..Len(cards) :
            /\ cards[i].rank = r
            /\ \A j \in 1..(i - 1) : cards[j].rank # r
    ELSE 0

MaxOf(a, b) == IF a >= b THEN a ELSE b

(***************************************************************************)
(* logic.ts: identifyHand                                                  *)
(***************************************************************************)
hasRank(sorted, r) == \E i \in 1..Len(sorted) : sorted[i].rank = r

isA2345(sorted) ==
    /\ hasRank(sorted, "A")
    /\ hasRank(sorted, "2")
    /\ hasRank(sorted, "3")
    /\ hasRank(sorted, "4")
    /\ hasRank(sorted, "5")

is23456(sorted) ==
    /\ hasRank(sorted, "2")
    /\ hasRank(sorted, "3")
    /\ hasRank(sorted, "4")
    /\ hasRank(sorted, "5")
    /\ hasRank(sorted, "6")

\* the loop over weights[i + 1] !== weights[i] + 1, weights = rank orders
isStandardStraight(sorted) ==
    \A i \in 1..4 : RankOrder[sorted[i + 1].rank] = RankOrder[sorted[i].rank] + 1

sequenceRank(sorted) ==
    IF is23456(sorted) THEN 10
    ELSE IF isA2345(sorted) THEN 1
    ELSE RankOrder[sorted[5].rank] - 2

rankingCardRank(sorted) ==
    IF is23456(sorted) THEN "6"
    ELSE IF isA2345(sorted) THEN "5"
    ELSE sorted[5].rank

\* the straight / straight flush branch, taken when one of the three tests holds
identifyStraight(sorted) ==
    LET isFlush == \A i \in 1..5 : sorted[i].suit = sorted[1].suit
        k == FirstOfRank(sorted, rankingCardRank(sorted))
    IN  IF k = 0 THEN ThrownHand
        ELSE LET strength == sequenceRank(sorted) * 10 + SuitOrder[sorted[k].suit]
             IN  IF isFlush THEN HandOf(sorted, "StraightFlush", strength)
                 ELSE HandOf(sorted, "Straight", strength)

\* the five-card branch with the four of a kind ranked by its first sorted card
identifyFive_FirstCardRank(sorted) ==
    IF isStandardStraight(sorted) \/ isA2345(sorted) \/ is23456(sorted)
    THEN identifyStraight(sorted)
    ELSE IF \/ sorted[1].rank = sorted[4].rank
            \/ sorted[2].rank = sorted[5].rank
    THEN HandOf(sorted, "FourOfAKind", RankOrder[sorted[1].rank])
    ELSE IF \/ (sorted[1].rank = sorted[3].rank /\ sorted[4].rank = sorted[5].rank)
            \/ (sorted[1].rank = sorted[2].rank /\ sorted[3].rank = sorted[5].rank)
    THEN HandOf(sorted, "FullHouse", RankOrder[sorted[3].rank])
    ELSE NullHand

\* the five-card branch with the full house ranked by its first sorted card
identifyFive_FullHouseFirstCard(sorted) ==
    IF isStandardStraight(sorted) \/ isA2345(sorted) \/ is23456(sorted)
    THEN identifyStraight(sorted)
    ELSE IF \/ sorted[1].rank = sorted[4].rank
            \/ sorted[2].rank = sorted[5].rank
    THEN HandOf(sorted, "FourOfAKind", RankOrder[sorted[3].rank])
    ELSE IF \/ (sorted[1].rank = sorted[3].rank /\ sorted[4].rank = sorted[5].rank)
            \/ (sorted[1].rank = sorted[2].rank /\ sorted[3].rank = sorted[5].rank)
    THEN HandOf(sorted, "FullHouse", RankOrder[sorted[1].rank])
    ELSE NullHand

\* the branch for cards.length === 5, on the sorted cards
identifyFive(sorted) ==
    IF isStandardStraight(sorted) \/ isA2345(sorted) \/ is23456(sorted)
    THEN identifyStraight(sorted)
    ELSE IF \/ sorted[1].rank = sorted[4].rank
            \/ sorted[2].rank = sorted[5].rank
    THEN HandOf(sorted, "FourOfAKind", RankOrder[sorted[3].rank])
    ELSE IF \/ (sorted[1].rank = sorted[3].rank /\ sorted[4].rank = sorted[5].rank)
            \/ (sorted[1].rank = sorted[2].rank /\ sorted[3].rank = sorted[5].rank)
    THEN HandOf(sorted, "FullHouse", RankOrder[sorted[3].rank])
    ELSE NullHand

\* identifyHand with the pair ranked by its first sorted card
identifyHand_PairFirstCard(cards) ==
    LET sorted == sortCards(cards)
    IN  IF Len(cards) = 0 THEN NullHand
        ELSE IF Len(cards) = 1
        THEN HandOf(sorted, "Single", getCardWeight(sorted[1]))
        ELSE IF Len(cards) = 2
        THEN IF sorted[1].rank = sorted[2].rank
             THEN HandOf(sorted, "Pair", getCardWeight(sorted[1]))
             ELSE NullHand
        ELSE IF Len(cards) = 13
                /\ Cardinality({cards[i].rank : i \in 1..13}) = 13
        THEN HandOf(sorted, "Dragon", getCardWeight(sorted[13]))
        ELSE IF Len(cards) = 5 THEN identifyFive(sorted)
        ELSE NullHand

\* identifyHand without the count of the ranks of 13 cards
identifyHand_AnyThirteen(cards) ==
    LET sorted == sortCards(cards)
    IN  IF Len(cards) = 0 THEN NullHand
        ELSE IF Len(cards) = 1
        THEN HandOf(sorted, "Single", getCardWeight(sorted[1]))
        ELSE IF Len(cards) = 2
        THEN IF sorted[1].rank = sorted[2].rank
             THEN HandOf(sorted, "Pair",
                         MaxOf(getCardWeight(sorted[1]), getCardWeight(sorted[2])))
             ELSE NullHand
        ELSE IF Len(cards) = 13
        THEN HandOf(sorted, "Dragon", getCardWeight(sorted[13]))
        ELSE IF Len(cards) = 5 THEN identifyFive(sorted)
        ELSE NullHand

identifyHand(cards) ==
    LET sorted == sortCards(cards)
    IN  IF Len(cards) = 0 THEN NullHand
        ELSE IF Len(cards) = 1
        THEN HandOf(sorted, "Single", getCardWeight(sorted[1]))
        ELSE IF Len(cards) = 2
        THEN IF sorted[1].rank = sorted[2].rank
             THEN HandOf(sorted, "Pair",
                         MaxOf(getCardWeight(sorted[1]), getCardWeight(sorted[2])))
             ELSE NullHand
        ELSE IF Len(cards) = 13
                /\ Cardinality({cards[i].rank : i \in 1..13}) = 13
        THEN HandOf(sorted, "Dragon", getCardWeight(sorted[13]))
        ELSE IF Len(cards) = 5 THEN identifyFive(sorted)
        ELSE NullHand

(***************************************************************************)
(* logic.ts: compareHands                                                  *)
(***************************************************************************)
HandTypeOrder ==
    [t \in HandTypes |->
        CASE t = "None" -> 0
          [] t = "Single" -> 1
          [] t = "Pair" -> 1
          [] t = "Straight" -> 2
          [] t = "FullHouse" -> 3
          [] t = "FourOfAKind" -> 4
          [] t = "StraightFlush" -> 5
          [] t = "Dragon" -> 6]

isBomb(hand) == hand.type = "FourOfAKind" \/ hand.type = "StraightFlush"

\* compareHands without the bomb override: a bomb on a non-bomb is compared like
\* any other hand, by card count, type and strength
compareHands_NoOverride(newHand, prevHand) ==
    IF isBomb(newHand) /\ isBomb(prevHand)
    THEN IF HandTypeOrder[newHand.type] > HandTypeOrder[prevHand.type]
         THEN TRUE
         ELSE IF HandTypeOrder[newHand.type] = HandTypeOrder[prevHand.type]
         THEN newHand.strength > prevHand.strength
         ELSE FALSE
    ELSE IF Len(newHand.cards) # Len(prevHand.cards) THEN FALSE
    ELSE IF newHand.type # prevHand.type THEN FALSE
    ELSE newHand.strength > prevHand.strength

\* compareHands without the test newHand.type !== prevHand.type
compareHands_NoTypeCheck(newHand, prevHand) ==
    IF isBomb(newHand)
    THEN IF isBomb(prevHand)
         THEN IF HandTypeOrder[newHand.type] > HandTypeOrder[prevHand.type]
              THEN TRUE
              ELSE IF HandTypeOrder[newHand.type] = HandTypeOrder[prevHand.type]
              THEN newHand.strength > prevHand.strength
              ELSE FALSE
         ELSE TRUE
    ELSE IF Len(newHand.cards) # Len(prevHand.cards) THEN FALSE
    ELSE newHand.strength > prevHand.strength

\* compareHands comparing two bombs by strength alone
compareHands_StrengthOnly(newHand, prevHand) ==
    IF isBomb(newHand)
    THEN IF isBomb(prevHand)
         THEN newHand.strength > prevHand.strength
         ELSE TRUE
    ELSE IF Len(newHand.cards) # Len(prevHand.cards) THEN FALSE
    ELSE IF newHand.type # prevHand.type THEN FALSE
    ELSE newHand.strength > prevHand.strength

\* compareHands in which a bomb beats every hand of another type
compareHands_BombBeatsBomb(newHand, prevHand) ==
    IF isBomb(newHand) /\ newHand.type # prevHand.type THEN TRUE
    ELSE IF isBomb(newHand) THEN newHand.strength > prevHand.strength
    ELSE IF Len(newHand.cards) # Len(prevHand.cards) THEN FALSE
    ELSE IF newHand.type # prevHand.type THEN FALSE
    ELSE newHand.strength > prevHand.strength

compareHands(newHand, prevHand) ==
    IF isBomb(newHand)
    THEN IF isBomb(prevHand)
         THEN IF HandTypeOrder[newHand.type] > HandTypeOrder[prevHand.type]
              THEN TRUE
              ELSE IF HandTypeOrder[newHand.type] = HandTypeOrder[prevHand.type]
              THEN newHand.strength > prevHand.strength
              ELSE FALSE
         ELSE TRUE
    ELSE IF Len(newHand.cards) # Len(prevHand.cards) THEN FALSE
    ELSE IF newHand.type # prevHand.type THEN FALSE
    ELSE newHand.strength > prevHand.strength

(***************************************************************************)
(* logic.ts: createDeck                                                    *)
(***************************************************************************)
\* the suits in the order createDeck loops over them
deckSuits == <<"Spades", "Hearts", "Diamonds", "Clubs">>

createDeck ==
    [i \in 1..(Len(deckSuits) * Len(allRanks)) |->
        CardOf(allRanks[((i - 1) % Len(allRanks)) + 1],
               deckSuits[((i - 1) \div Len(allRanks)) + 1])]

Club3 == CardOf("3", "Clubs")

(***************************************************************************)
(* logic.ts: findFiveCardHands, getAllPairs                                *)
(***************************************************************************)
RECURSIVE Flatten(_)
\* the concatenation of a sequence of sequences
Flatten(ss) == IF Len(ss) = 0 THEN <<>> ELSE Head(ss) \o Flatten(Tail(ss))

\* the key order of Object.values(groups): the integer-like keys "2".."10" in
\* ascending numeric order first, then J, Q, K, A in insertion order, which is
\* their order in the weight-sorted hand
objectKeyOrder ==
    <<"2", "3", "4", "5", "6", "7", "8", "9", "10", "J", "Q", "K", "A">>

\* Object.values(groups): the non-empty rank groups of the sorted hand
rankGroups(sorted) ==
    SelectSeq([i \in 1..Len(objectKeyOrder) |->
                  SelectSeq(sorted, LAMBDA c : c.rank = objectKeyOrder[i])],
              LAMBDA g : Len(g) > 0)

\* triples.forEach(t => pairs.forEach(p => ...)): triple first, then the pair
fullHouseHands(sorted) ==
    LET groups == rankGroups(sorted)
        triples == SelectSeq(groups, LAMBDA g : Len(g) >= 3)
        pairs == SelectSeq(groups, LAMBDA g : Len(g) >= 2)
        withPairs(t) ==
            LET ps == SelectSeq(pairs, LAMBDA g : g[1].rank # t[1].rank)
            IN  [k \in 1..Len(ps) |-> SubSeq(t, 1, 3) \o SubSeq(ps[k], 1, 2)]
    IN  Flatten([i \in 1..Len(triples) |-> withPairs(triples[i])])

\* quads.forEach(q => sorted.forEach(c => ...)): the quad, then one other card
quadHands(sorted) ==
    LET quads == SelectSeq(rankGroups(sorted), LAMBDA g : Len(g) = 4)
        withKicker(q) ==
            LET cs == SelectSeq(sorted, LAMBDA c : c.rank # q[1].rank)
            IN  [k \in 1..Len(cs) |-> q \o <<cs[k]>>]
    IN  Flatten([i \in 1..Len(quads) |-> withKicker(quads[i])])

\* the rank windows searched for straights: allRanks.slice(i, i + 5) for
\* i = 0 .. allRanks.length - 5, then A-2-3-4-5, then 2-3-4-5-6
straightWindows ==
    [i \in 1..(Len(allRanks) - 4) |-> SubSeq(allRanks, i, i + 4)]
        \o << <<"A", "2", "3", "4", "5">>, <<"2", "3", "4", "5", "6">> >>

\* for each window whose ranks are all held, the first card of each rank
straightHands(sorted) ==
    LET held == SelectSeq(straightWindows,
                          LAMBDA w : \A j \in 1..5 : hasRank(sorted, w[j]))
    IN  [k \in 1..Len(held) |->
            [j \in 1..5 |-> sorted[FirstOfRank(sorted, held[k][j])]]]

findFiveCardHands(hand) ==
    LET sorted == sortCards(hand)
    IN  fullHouseHands(sorted) \o quadHands(sorted) \o straightHands(sorted)

getAllPairs(sortedHand) ==
    LET at == SelectSeq([i \in 1..Len(sortedHand) |-> i],
                        LAMBDA i : /\ i < Len(sortedHand)
                                   /\ sortedHand[i].rank = sortedHand[i + 1].rank)
    IN  [k \in 1..Len(at) |-> <<sortedHand[at[k]], sortedHand[at[k] + 1]>>]

(***************************************************************************)
(* logic.ts: getSmartBotPlay, getDumbBotPlay.  Both are called with a      *)
(* non-empty hand: a game ends with the turn that empties a hand.          *)
(***************************************************************************)
hasClub3(cards) == \E i \in 1..Len(cards) : cards[i] = Club3

\* the first-turn logic without the pair step: 3 of clubs goes out alone
smartFirstTurn_NoPair(sorted) ==
    IF ~hasClub3(sorted) THEN <<sorted[1]>>
    ELSE LET fives == SelectSeq(findFiveCardHands(sorted), hasClub3)
         IN  IF Len(fives) > 0 THEN fives[1] ELSE <<Club3>>

\* 1. First Turn Logic (Must play Club 3)
smartFirstTurn(sorted) ==
    IF ~hasClub3(sorted) THEN <<sorted[1]>>
    ELSE LET fives == SelectSeq(findFiveCardHands(sorted), hasClub3)
             pairs == SelectSeq(getAllPairs(sorted), hasClub3)
         IN  IF Len(fives) > 0 THEN fives[1]
             ELSE IF Len(pairs) > 0 THEN pairs[1]
             ELSE <<Club3>>

\* myFives.map(identifyHand).filter(bomb).map(h => h.cards)
bombsOf(myFives) ==
    LET hs == SelectSeq([i \in 1..Len(myFives) |-> identifyHand(myFives[i])],
                        isBomb)
    IN  [i \in 1..Len(hs) |-> hs[i].cards]

isNonBombFive(cards) ==
    LET h == identifyHand(cards) IN h # NullHand /\ ~isBomb(h)

\* the lead without the early-game filter: the first enumerated five goes out
smartLead_NoBombSaving(hand, sorted, myFives) ==
    LET pairs == getAllPairs(sorted)
        smallCards == SelectSeq(sorted, LAMBDA c : RankOrder[c.rank] < 8)
    IN  IF Len(myFives) > 0 THEN myFives[1]
        ELSE IF Len(pairs) > 0 THEN pairs[1]
        ELSE IF Len(smallCards) > 0 THEN <<smallCards[1]>>
        ELSE <<sorted[1]>>

\* 2. Free Turn Logic (Leading)
smartLead(hand, sorted, myFives) ==
    LET isLateGame == Len(hand) <= 5
        nonBombs == SelectSeq(myFives, isNonBombFive)
        pairs == getAllPairs(sorted)
        smallCards == SelectSeq(sorted, LAMBDA c : RankOrder[c.rank] < 8)
    IN  IF Len(hand) <= 5 /\ Len(myFives) > 0 /\ Len(hand) = 5 THEN myFives[1]
        ELSE IF Len(myFives) > 0 /\ ~isLateGame /\ Len(nonBombs) > 0
        THEN nonBombs[1]
        ELSE IF Len(myFives) > 0 /\ isLateGame THEN myFives[1]
        ELSE IF Len(pairs) > 0 THEN pairs[1]
        ELSE IF Len(smallCards) > 0 THEN <<smallCards[1]>>
        ELSE <<sorted[1]>>

dangerous(opponentsHandSizes) ==
    \E i \in 1..Len(opponentsHandSizes) : opponentsHandSizes[i] <= 3

\* the Single follow without the check of the next player's hand size
smartFollowSingle_NoDenial(hand, sorted, myBombs, lastPlayed, opponentsHandSizes, nextPlayerHandSize) ==
    LET validCards == SelectSeq(sorted,
                        LAMBDA c : getCardWeight(c) > lastPlayed.strength)
        isLateGame == Len(hand) <= 5
    IN  IF Len(validCards) > 0 THEN <<validCards[1]>>
        ELSE IF (dangerous(opponentsHandSizes) \/ isLateGame) /\ Len(myBombs) > 0
        THEN myBombs[1]
        ELSE NullCards

\* 3. Follow Turn Logic, lastPlayed.type === "Single"
smartFollowSingle(hand, sorted, myBombs, lastPlayed, opponentsHandSizes, nextPlayerHandSize) ==
    LET myLargest == sorted[Len(sorted)]
        validCards == SelectSeq(sorted,
                        LAMBDA c : getCardWeight(c) > lastPlayed.strength)
        nonTwos == SelectSeq(validCards, LAMBDA c : c.rank # "2")
        isLateGame == Len(hand) <= 5
    IN  IF nextPlayerHandSize = 1
        THEN IF getCardWeight(myLargest) > lastPlayed.strength
             THEN <<myLargest>>
             ELSE IF Len(myBombs) > 0 THEN myBombs[1]
             ELSE NullCards
        ELSE IF Len(validCards) > 0
        THEN IF Len(nonTwos) > 0 THEN <<nonTwos[1]>> ELSE <<validCards[1]>>
        ELSE IF (dangerous(opponentsHandSizes) \/ isLateGame) /\ Len(myBombs) > 0
        THEN myBombs[1]
        ELSE NullCards

beatsStrength(cards, lastPlayed) ==
    LET h == identifyHand(cards)
    IN  h # NullHand /\ h.strength > lastPlayed.strength

\* the Pair follow that never holds the pair of 2s back
smartFollowPair_NoWithholding(hand, sorted, myBombs, lastPlayed, opponentsHandSizes) ==
    LET validPairs == SelectSeq(getAllPairs(sorted),
                                LAMBDA q : beatsStrength(q, lastPlayed))
    IN  IF Len(validPairs) > 0 THEN validPairs[1]
        ELSE IF Len(myBombs) > 0 THEN myBombs[1]
        ELSE NullCards

\* 3. Follow Turn Logic, lastPlayed.type === "Pair"
smartFollowPair(hand, sorted, myBombs, lastPlayed, opponentsHandSizes) ==
    LET validPairs == SelectSeq(getAllPairs(sorted),
                                LAMBDA q : beatsStrength(q, lastPlayed))
        amILateGame == Len(hand) <= 5
    IN  IF Len(validPairs) > 0
        THEN IF /\ validPairs[1][1].rank = "2"
                /\ ~dangerous(opponentsHandSizes)
                /\ ~amILateGame
             THEN NullCards
             ELSE validPairs[1]
        ELSE IF Len(myBombs) > 0 THEN myBombs[1]
        ELSE NullCards

beatsHand(cards, lastPlayed) ==
    LET h == identifyHand(cards)
    IN  h # NullHand /\ compareHands(h, lastPlayed)

\* the 5-card follow without the compareHands filter: the first enumerated
\* combination is played whatever is on the table
smartFollowFive_NoCompare(myFives, lastPlayed) ==
    IF Len(myFives) > 0 THEN myFives[1] ELSE NullCards

\* 3. Follow Turn Logic, a 5-card type or Dragon on the table
smartFollowFive(myFives, lastPlayed) ==
    LET beating == SelectSeq(myFives, LAMBDA f : beatsHand(f, lastPlayed))
    IN  IF Len(beating) > 0 THEN beating[1] ELSE NullCards

getSmartBotPlay(hand, lastPlayed, isFirstTurn, opponentsHandSizes, consecutivePasses, nextPlayerHandSize) ==
    LET sorted == sortCards(hand)
        myFives == findFiveCardHands(sorted)
        myBombs == bombsOf(myFives)
    IN  IF isFirstTurn THEN smartFirstTurn(sorted)
        ELSE IF lastPlayed = NullHand THEN smartLead(hand, sorted, myFives)
        ELSE IF lastPlayed.type = "Single"
        THEN smartFollowSingle(hand, sorted, myBombs, lastPlayed,
                               opponentsHandSizes, nextPlayerHandSize)
        ELSE IF lastPlayed.type = "Pair"
        THEN smartFollowPair(hand, sorted, myBombs, lastPlayed,
                             opponentsHandSizes)
        ELSE IF lastPlayed.type \in {"Straight", "FullHouse", "FourOfAKind",
                                     "StraightFlush", "Dragon"}
        THEN smartFollowFive(myFives, lastPlayed)
        ELSE NullCards

\* getDumbBotPlay without the test of the reference's type
getDumbBotPlay_AnyType(hand, lastPlayed, isFirstTurn) ==
    LET sorted == sortCards(hand)
        valid == SelectSeq(sorted,
                    LAMBDA c : getCardWeight(c) > lastPlayed.strength)
    IN  IF isFirstTurn
        THEN IF hasClub3(sorted) THEN <<Club3>> ELSE <<sorted[1]>>
        ELSE IF lastPlayed = NullHand THEN <<sorted[1]>>
        ELSE IF Len(valid) > 0 THEN <<valid[1]>>
        ELSE NullCards

getDumbBotPlay(hand, lastPlayed, isFirstTurn) ==
    LET sorted == sortCards(hand)
        valid == SelectSeq(sorted,
                    LAMBDA c : getCardWeight(c) > lastPlayed.strength)
    IN  IF isFirstTurn
        THEN IF hasClub3(sorted) THEN <<Club3>> ELSE <<sorted[1]>>
        ELSE IF lastPlayed = NullHand THEN <<sorted[1]>>
        ELSE IF lastPlayed.type = "Single" /\ Len(valid) > 0 THEN <<valid[1]>>
        ELSE NullCards

(***************************************************************************)
(* The game state while a pure function is under check: the initial        *)
(* GameStatus with four players seated, no game started.                   *)
(***************************************************************************)
Seats == 0..3

\* Player.id of the player in each seat
playerIds == [i \in Seats |-> <<"p0", "p1", "p2", "p3">>[i + 1]]

PlayerOf(i, h, bot, afk) == [id |-> playerIds[i], hand |-> h, isBot |-> bot, afkCount |-> afk]

NoGame ==
    /\ players = [i \in Seats |-> PlayerOf(i, <<>>, FALSE, 0)]
    /\ currentPlayerIndex = 0
    /\ lastPlayedHand = NullHand
    /\ lastPlayerId = NoId
    /\ passCount = 0
    /\ winnerId = NoId
    /\ isStarted = FALSE

(***************************************************************************)
(* SpecCompare: compareHands applied to two Hand values.  compareHands     *)
(* reads the type, the strength and the number of cards of each hand.      *)
(***************************************************************************)
MaxStrength == 2

CardCounts == {1, 2, 5, 13}

CompareHandPool ==
    {HandOf(SubSeq(createDeck, 1, n), t, k) :
        n \in CardCounts, t \in HandTypes, k \in 0..MaxStrength}

InitCompare ==
    /\ pc = "idle"
    /\ args \in [newHand : CompareHandPool, prevHand : CompareHandPool]
    /\ ret = FALSE
    /\ NoGame

CallCompareHands ==
    /\ pc = "idle"
    /\ pc' = "compareHands"
    /\ ret' = compareHands(args.newHand, args.prevHand)
    /\ UNCHANGED <<args, gameVars>>

NextCompare == CallCompareHands

SpecCompare == InitCompare /\ [][NextCompare]_vars

NonBombTypes == {"Single", "Pair", "Straight", "FullHouse", "Dragon"}

\* C1: a FourOfAKind or StraightFlush candidate beats every reference that is a
\* Single, Pair, Straight, FullHouse or Dragon, whatever the strengths and the
\* card counts of the two hands.
C1_BombBeatsNonBomb ==
    (/\ pc = "compareHands"
     /\ args.newHand.type \in {"FourOfAKind", "StraightFlush"}
     /\ args.prevHand.type \in NonBombTypes)
        => ret = TRUE

\* a bomb was played on a non-bomb of greater strength and another card count
C1_Witness ==
    /\ pc = "compareHands"
    /\ args.newHand.type = "FourOfAKind"
    /\ args.prevHand.type = "Straight"
    /\ args.newHand.strength < args.prevHand.strength
    /\ Len(args.newHand.cards) # Len(args.prevHand.cards)
    /\ ret = TRUE

\* C2: for a candidate that is neither FourOfAKind nor StraightFlush, compareHands
\* is true exactly when the two hands have the same number of cards and the same
\* type and the candidate's strength is strictly greater.
C2_NonBombNeedsSameShape ==
    (/\ pc = "compareHands"
     /\ args.newHand.type \notin {"FourOfAKind", "StraightFlush"})
        => (ret = TRUE <=>
                /\ Len(args.newHand.cards) = Len(args.prevHand.cards)
                /\ args.newHand.type = args.prevHand.type
                /\ args.newHand.strength > args.prevHand.strength)

\* a stronger Straight was refused on a FullHouse of the same card count
C2_Witness ==
    /\ pc = "compareHands"
    /\ args.newHand.type = "Straight"
    /\ args.prevHand.type = "FullHouse"
    /\ Len(args.newHand.cards) = Len(args.prevHand.cards)
    /\ args.newHand.strength > args.prevHand.strength
    /\ ret = FALSE

\* C3: between two bombs the type decides first: a StraightFlush beats every
\* FourOfAKind, a FourOfAKind beats no StraightFlush, and two bombs of one type
\* compare by strictly greater strength.
C3_BombsByTypeThenStrength ==
    (/\ pc = "compareHands"
     /\ args.newHand.type \in {"FourOfAKind", "StraightFlush"}
     /\ args.prevHand.type \in {"FourOfAKind", "StraightFlush"})
        => ret = (\/ /\ args.newHand.type = "StraightFlush"
                     /\ args.prevHand.type = "FourOfAKind"
                  \/ /\ args.newHand.type = args.prevHand.type
                     /\ args.newHand.strength > args.prevHand.strength)

\* a weaker StraightFlush beat a stronger FourOfAKind
C3_Witness ==
    /\ pc = "compareHands"
    /\ args.newHand.type = "StraightFlush"
    /\ args.prevHand.type = "FourOfAKind"
    /\ args.newHand.strength < args.prevHand.strength
    /\ ret = TRUE

(***************************************************************************)
(* SpecStraight: identifyHand applied to every group of 5 distinct cards   *)
(* of the 13 ranks in the StraightSuits lowest suits, given in deck order. *)
(***************************************************************************)
StraightSuits == 2

StraightDeck ==
    SelectSeq(createDeck, LAMBDA c : SuitOrder[c.suit] < StraightSuits)

InitStraight ==
    /\ pc = "idle"
    /\ \E i1 \in 1..Len(StraightDeck) :
       \E i2 \in (i1 + 1)..Len(StraightDeck) :
       \E i3 \in (i2 + 1)..Len(StraightDeck) :
       \E i4 \in (i3 + 1)..Len(StraightDeck) :
       \E i5 \in (i4 + 1)..Len(StraightDeck) :
          args = <<StraightDeck[i1], StraightDeck[i2], StraightDeck[i3],
                   StraightDeck[i4], StraightDeck[i5]>>
    /\ ret = NullHand
    /\ NoGame

CallIdentifyHand ==
    /\ pc = "idle"
    /\ pc' = "identifyHand"
    /\ ret' = identifyHand(args)
    /\ UNCHANGED <<args, gameVars>>

NextStraight == CallIdentifyHand

SpecStraight == InitStraight /\ [][NextStraight]_vars

RanksOf(cards) == {cards[i].rank : i \in 1..Len(cards)}

\* the ten straight windows by sequence rank: 1 is A-2-3-4-5, 2..9 are 3-4-5-6-7
\* up to 10-J-Q-K-A, and 10 is 2-3-4-5-6
Window(k) ==
    IF k = 1 THEN {"A", "2", "3", "4", "5"}
    ELSE IF k = 10 THEN {"2", "3", "4", "5", "6"}
    ELSE {allRanks[j] : j \in (k - 1)..(k + 3)}

IsStraightType(h) == h.type \in {"Straight", "StraightFlush"}

\* what identifyHand makes of the groups of StraightDeck on window k
ClassifiedOn(k) ==
    {identifyHand(<<CardOf("2", s1), CardOf("3", s2), CardOf("4", s3),
                    CardOf("5", s4), CardOf(IF k = 1 THEN "A" ELSE "6", s5)>>) :
        s1 \in {StraightDeck[i].suit : i \in 1..Len(StraightDeck)},
        s2 \in {StraightDeck[i].suit : i \in 1..Len(StraightDeck)},
        s3 \in {StraightDeck[i].suit : i \in 1..Len(StraightDeck)},
        s4 \in {StraightDeck[i].suit : i \in 1..Len(StraightDeck)},
        s5 \in {StraightDeck[i].suit : i \in 1..Len(StraightDeck)}}

\* C4: among the groups classified Straight or StraightFlush, every group on
\* 2-3-4-5-6 is strictly stronger than every group on another rank set, and
\* every group on A-2-3-4-5 is strictly weaker than every group on another one.
C4_WrapsAreExtremes ==
    (pc = "identifyHand" /\ IsStraightType(ret))
        => /\ RanksOf(args) # Window(10)
                => \A b \in ClassifiedOn(10) : b.strength > ret.strength
           /\ RanksOf(args) # Window(1)
                => \A b \in ClassifiedOn(1) : b.strength < ret.strength

\* C5: 5 distinct cards are a Straight or StraightFlush exactly when their rank
\* set is one of the ten windows, and window k gets sequence rank k (the tens of
\* the strength), so any other rank set, J-Q-K-A-2 included, is no straight.
C5_TenWindows ==
    pc = "identifyHand"
        => /\ IsStraightType(ret) <=> \E k \in 1..10 : RanksOf(args) = Window(k)
           /\ \A k \in 1..10 :
                RanksOf(args) = Window(k) => ret.strength \div 10 = k

(***************************************************************************)
(* SpecIdentify: identifyHand applied to card groups of every length from  *)
(* 0 to MaxGroupLen (runs of the deck in deal order and in weight order),  *)
(* to such groups with one card replaced by a copy of another, and to      *)
(* every group of 5 distinct cards of the FiveRanks highest ranks.         *)
(***************************************************************************)
MaxGroupLen == 14

FiveRanks == 5

DeckOrders == {createDeck, sortCards(createDeck)}

DeckRuns ==
    {SubSeq(d, k, k + n - 1) :
        d \in DeckOrders, n \in 0..MaxGroupLen, k \in 1..(Len(createDeck) - MaxGroupLen)}

\* a run of a classifiable length in which the card at i is a copy of the one at j
RepeatedCardGroups ==
    UNION {{[g EXCEPT ![i] = g[j]] : i \in 1..Len(g), j \in 1..Len(g)} :
            g \in {r \in DeckRuns : Len(r) \in {2, 5, 13}}}

TopDeck ==
    SelectSeq(createDeck,
              LAMBDA c : RankOrder[c.rank] >= Len(allRanks) - FiveRanks)

InitIdentify ==
    /\ pc = "idle"
    /\ \/ args \in DeckRuns
       \/ args \in RepeatedCardGroups
       \/ \E i1 \in 1..Len(TopDeck) :
          \E i2 \in (i1 + 1)..Len(TopDeck) :
          \E i3 \in (i2 + 1)..Len(TopDeck) :
          \E i4 \in (i3 + 1)..Len(TopDeck) :
          \E i5 \in (i4 + 1)..Len(TopDeck) :
             args = <<TopDeck[i1], TopDeck[i2], TopDeck[i3], TopDeck[i4],
                      TopDeck[i5]>>
    /\ ret = NullHand
    /\ NoGame

NextIdentify == CallIdentifyHand

SpecIdentify == InitIdentify /\ [][NextIdentify]_vars

HasRepeatedCard(cards) ==
    \E i \in 1..Len(cards) : \E j \in (i + 1)..Len(cards) : cards[i] = cards[j]

\* the number of cards of rank r in a group
CountOfRank(cards, r) == Cardinality({i \in 1..Len(cards) : cards[i].rank = r})

\* the rank multiplicities of a group, as a set: {4, 1} is four of a kind plus a
\* kicker, {3, 2} is a full house
RankCounts(cards) == {CountOfRank(cards, r) : r \in RanksOf(cards)}

IsWindow(cards) == \E k \in 1..10 : RanksOf(cards) = Window(k)

\* a group that is no recognised pattern: a length other than 1, 2, 5 and 13,
\* two cards of different rank, 13 cards with a repeated rank, or 5 cards that
\* are no straight window, no four of a kind plus kicker and no full house
Unrecognised(cards) ==
    \/ Len(cards) \notin {1, 2, 5, 13}
    \/ Len(cards) = 2 /\ cards[1].rank # cards[2].rank
    \/ Len(cards) = 13 /\ Cardinality(RanksOf(cards)) < 13
    \/ /\ Len(cards) = 5
       /\ ~IsWindow(cards)
       /\ RankCounts(cards) # {4, 1}
       /\ RankCounts(cards) # {3, 2}

\* C9: identifyHand never throws, and returns null for every group of distinct
\* cards that is no recognised pattern.
C9_NullOnUnrecognised ==
    (pc = "identifyHand" /\ ~HasRepeatedCard(args))
        => /\ ret # ThrownHand
           /\ Unrecognised(args) => ret = NullHand

\* C10: identifyHand returns null for every group in which one card (rank and
\* suit) occurs more than once.
C10_NullOnRepeatedCard ==
    (pc = "identifyHand" /\ HasRepeatedCard(args)) => ret = NullHand

(***************************************************************************)
(* SpecBot: getSmartBotPlay applied to every non-empty hand made of the    *)
(* first BotPool cards of botPoolOrder, on the first turn, leading, and    *)
(* following each hand of ReferenceHands in each of the BotContexts.       *)
(***************************************************************************)
BotPool == 12

\* a straight flush 3-7 of clubs, the four 9s, a second 3, two 2s, an ace, ...
botPoolOrder ==
    <<CardOf("3", "Clubs"), CardOf("4", "Clubs"), CardOf("5", "Clubs"),
      CardOf("6", "Clubs"), CardOf("7", "Clubs"), CardOf("9", "Clubs"),
      CardOf("9", "Diamonds"), CardOf("9", "Hearts"), CardOf("9", "Spades"),
      CardOf("3", "Hearts"), CardOf("2", "Spades"), CardOf("2", "Hearts"),
      CardOf("A", "Hearts"), CardOf("7", "Diamonds")>>

\* a player's hand is kept in weight order (dealt sorted, then filtered)
HandOfSet(S) == SelectSeq(sortCards(createDeck), LAMBDA c : c \in S)

BotHands ==
    {HandOfSet(S) : S \in SUBSET {botPoolOrder[i] : i \in 1..BotPool}} \ {<<>>}

\* hands another player can have put on the table: cards outside botPoolOrder,
\* but for the Dragon, which needs a 9
ReferenceHands ==
    {identifyHand(g) : g \in {
        <<CardOf("3", "Spades")>>,
        <<CardOf("10", "Diamonds")>>,
        <<CardOf("2", "Diamonds")>>,
        <<CardOf("4", "Diamonds"), CardOf("4", "Hearts")>>,
        <<CardOf("A", "Clubs"), CardOf("A", "Diamonds")>>,
        <<CardOf("2", "Clubs"), CardOf("2", "Diamonds")>>,
        <<CardOf("A", "Spades"), CardOf("2", "Clubs"), CardOf("3", "Spades"),
          CardOf("4", "Spades"), CardOf("5", "Hearts")>>,
        <<CardOf("10", "Clubs"), CardOf("J", "Clubs"), CardOf("Q", "Diamonds"),
          CardOf("K", "Diamonds"), CardOf("A", "Clubs")>>,
        <<CardOf("4", "Diamonds"), CardOf("4", "Hearts"), CardOf("4", "Spades"),
          CardOf("10", "Clubs"), CardOf("10", "Diamonds")>>,
        <<CardOf("Q", "Clubs"), CardOf("Q", "Diamonds"), CardOf("Q", "Hearts"),
          CardOf("10", "Hearts"), CardOf("10", "Spades")>>,
        <<CardOf("8", "Clubs"), CardOf("8", "Diamonds"), CardOf("8", "Hearts"),
          CardOf("8", "Spades"), CardOf("10", "Diamonds")>>,
        <<CardOf("K", "Clubs"), CardOf("K", "Diamonds"), CardOf("K", "Hearts"),
          CardOf("K", "Spades"), CardOf("10", "Diamonds")>>,
        <<CardOf("A", "Diamonds"), CardOf("2", "Diamonds"), CardOf("3", "Diamonds"),
          CardOf("4", "Diamonds"), CardOf("5", "Diamonds")>>,
        <<CardOf("10", "Spades"), CardOf("J", "Spades"), CardOf("Q", "Spades"),
          CardOf("K", "Spades"), CardOf("A", "Spades")>>,
        SubSeq(createDeck, 1, 13)}}

\* the other three hand sizes, the next player's first
BotContexts == {<<13, 13, 13>>, <<1, 13, 13>>, <<13, 3, 13>>}

BotArgs(h, last, first, sizes) ==
    [hand |-> h, lastPlayed |-> last, isFirstTurn |-> first,
     opponentsHandSizes |-> sizes, consecutivePasses |-> 0,
     nextPlayerHandSize |-> sizes[1]]

InitBot ==
    /\ pc = "idle"
    /\ \E h \in BotHands :
          \/ args = BotArgs(h, NullHand, TRUE, <<13, 13, 13>>)
          \/ \E last \in ReferenceHands \cup {NullHand}, sizes \in BotContexts :
                args = BotArgs(h, last, FALSE, sizes)
    /\ ret = NullCards
    /\ NoGame

CallSmartBotPlay ==
    /\ pc = "idle"
    /\ pc' = "getSmartBotPlay"
    /\ ret' = getSmartBotPlay(args.hand, args.lastPlayed, args.isFirstTurn,
                               args.opponentsHandSizes, args.consecutivePasses,
                               args.nextPlayerHandSize)
    /\ UNCHANGED <<args, gameVars>>

NextBot == CallSmartBotPlay

SpecBot == InitBot /\ [][NextBot]_vars

\* cards is a selection of distinct cards of hand
IsSelectionOf(cards, hand) ==
    /\ \A i \in 1..Len(cards) : \E j \in 1..Len(hand) : hand[j] = cards[i]
    /\ ~HasRepeatedCard(cards)

\* C6: when getSmartBotPlay, following a reference hand, returns cards, they are
\* distinct cards of the bot's hand, identifyHand classifies them, and
\* compareHands(that hand, reference) is true.
C6_FollowPlayIsLegal ==
    (/\ pc = "getSmartBotPlay"
     /\ ~args.isFirstTurn
     /\ args.lastPlayed # NullHand
     /\ ret # NullCards)
        => /\ IsSelectionOf(ret, args.hand)
           /\ identifyHand(ret) # NullHand
           /\ compareHands(identifyHand(ret), args.lastPlayed)

\* the bot answered a FullHouse with five cards
C6_Witness ==
    /\ pc = "getSmartBotPlay"
    /\ ~args.isFirstTurn
    /\ args.lastPlayed.type = "FullHouse"
    /\ ret # NullCards
    /\ Len(ret) = 5

\* C7: on the first turn with 3 of clubs in hand, getSmartBotPlay returns a valid
\* hand of its own cards that contains 3 of clubs: five cards when its enumerator
\* yields a combination with 3 of clubs, else the pair of 3s with 3 of clubs when
\* the hand holds another 3, else 3 of clubs alone.
C7_FirstTurnPlaysClub3 ==
    (pc = "getSmartBotPlay" /\ args.isFirstTurn /\ hasClub3(args.hand))
        => /\ ret # NullCards
           /\ IsSelectionOf(ret, args.hand)
           /\ identifyHand(ret) # NullHand
           /\ hasClub3(ret)
           /\ IF \E i \in 1..Len(findFiveCardHands(args.hand)) :
                    hasClub3(findFiveCardHands(args.hand)[i])
              THEN Len(ret) = 5
              ELSE IF CountOfRank(args.hand, "3") > 1
              THEN Len(ret) = 2 /\ RanksOf(ret) = {"3"}
              ELSE ret = <<Club3>>

\* the first turn was opened with the pair of 3s
C7_Witness ==
    /\ pc = "getSmartBotPlay"
    /\ args.isFirstTurn
    /\ hasClub3(args.hand)
    /\ Len(ret) = 2
    /\ hasClub3(ret)

(***************************************************************************)
(* logic.ts: shuffleDeck.  Math.random is the sequence of draws: draw[i]   *)
(* is the index j in 0..i chosen at step i of the Fisher-Yates loop.       *)
(***************************************************************************)
\* a swap that only writes position i: shuffled[i] = shuffled[j]
swap_Overwrite(shuffled, i, j) == [shuffled EXCEPT ![i + 1] = shuffled[j + 1]]

\* [shuffled[i], shuffled[j]] = [shuffled[j], shuffled[i]], 0-based i and j
swap(shuffled, i, j) ==
    [shuffled EXCEPT ![i + 1] = shuffled[j + 1], ![j + 1] = shuffled[i + 1]]

RECURSIVE shuffleFrom(_, _, _)
\* the loop for (i = shuffled.length - 1; i > 0; i--), from step i on
shuffleFrom(shuffled, i, draw) ==
    IF i <= 0 THEN shuffled
    ELSE shuffleFrom(swap(shuffled, i, draw[i]), i - 1, draw)

shuffleDeck(deck, draw) == shuffleFrom(deck, Len(deck) - 1, draw)

\* the outcomes of Math.random the model draws: a family of draw sequences.
\* Draw 0 picks j = i at every step and leaves the deck as createDeck built
\* it; draw k > 0 picks j by a congruential formula of i and k.
MaxShuffle == 11

drawsOf(k) ==
    [i \in 1..(Len(createDeck) - 1) |->
        IF k = 0 THEN i
        ELSE (((i * i * k + 31 * i + 17 * k * k) * 7919) % 65537) % (i + 1)]

(***************************************************************************)
(* page.tsx: handleStartGame, processTurn, the bot turn effect and the     *)
(* turn timeout effect, as run by the host, whose update is the one every  *)
(* client adopts.  Four players are seated; joining, leaving, scores and   *)
(* the series are left out.                                                *)
(***************************************************************************)
\* deck.slice(dealCount * 13, (dealCount + 1) * 13), sorted, seat by seat
dealtPlayers(deck) ==
    [i \in Seats |->
        [players[i] EXCEPT !.hand = sortCards(SubSeq(deck, i * 13 + 1, (i + 1) * 13))]]

\* a club3Idx that is never looked up: seat 0 always opens
club3Idx_Zero(dealt) == 0

\* dealtPlayers.findIndex(p => p.hand has 3 of clubs), -1 when there is none
club3Idx(dealt) ==
    IF \E i \in Seats : hasClub3(dealt[i].hand)
    THEN CHOOSE i \in Seats :
            /\ hasClub3(dealt[i].hand)
            /\ \A j \in 0..(i - 1) : ~hasClub3(dealt[j].hand)
    ELSE -1

handleStartGame(k) ==
    LET deck == shuffleDeck(createDeck, drawsOf(k))
        dealt == dealtPlayers(deck)
    IN  /\ ~isStarted
        /\ players' = dealt
        /\ isStarted' = TRUE
        /\ currentPlayerIndex' = IF club3Idx(dealt) = -1 THEN 0 ELSE club3Idx(dealt)
        /\ winnerId' = NoId
        /\ lastPlayedHand' = NullHand
        /\ lastPlayerId' = NoId
        /\ passCount' = 0
        /\ pc' = "handleStartGame"
        /\ ret' = NullCards
        /\ UNCHANGED args

\* the AFK bookkeeping of processTurn: the second timeout in a row makes the
\* player a bot
afterAfk(ps, idx, isAfkTimeout) ==
    IF isAfkTimeout /\ ~ps[idx].isBot
    THEN IF ps[idx].afkCount + 1 >= 2
         THEN [ps EXCEPT ![idx].isBot = TRUE, ![idx].afkCount = 0]
         ELSE [ps EXCEPT ![idx].afkCount = @ + 1]
    ELSE ps

\* a removal that leaves the played cards in the hand
removeCards_Keep(hand, cards) == hand

\* the hand without the played cards, or unchanged when one of them is not in it
removeCards(hand, cards) ==
    IF \A i \in 1..Len(cards) : \E j \in 1..Len(hand) : hand[j] = cards[i]
    THEN SelectSeq(hand, LAMBDA c : \A i \in 1..Len(cards) : cards[i] # c)
    ELSE hand

seatOf(id) == CHOOSE i \in Seats : playerIds[i] = id

processTurn(actingPlayerId, cards, hand, isAfkTimeout) ==
    LET actingIdx == seatOf(actingPlayerId)
        counted == afterAfk(players, actingIdx, isAfkTimeout)
        nextIdx == (actingIdx + 1) % 4
        newPlayers ==
            IF cards # NullCards /\ hand # NullHand
            THEN [counted EXCEPT ![actingIdx].hand = removeCards(@, cards)]
            ELSE counted
        hasWinner == \E i \in Seats : Len(newPlayers[i].hand) = 0
        winner == CHOOSE i \in Seats :
                    /\ Len(newPlayers[i].hand) = 0
                    /\ \A j \in 0..(i - 1) : Len(newPlayers[j].hand) # 0
    IN  /\ players' = newPlayers
        /\ lastPlayedHand' = IF cards # NullCards THEN hand ELSE lastPlayedHand
        /\ lastPlayerId' = IF cards # NullCards THEN actingPlayerId ELSE lastPlayerId
        /\ currentPlayerIndex' = IF hasWinner THEN actingIdx ELSE nextIdx
        /\ passCount' = IF cards # NullCards THEN 0 ELSE passCount + 1
        /\ winnerId' = IF hasWinner THEN newPlayers[winner].id ELSE NoId
        /\ isStarted' = ~hasWinner

\* lastPlayedHand === null and every hand still has 13 cards
isFirstTurn ==
    /\ lastPlayedHand = NullHand
    /\ \A i \in Seats : Len(players[i].hand) = 13

\* the hand sizes of the players other than seat i, in seat order
opponentsHandSizes(i) ==
    LET others == SelectSeq([k \in 1..4 |-> k - 1], LAMBDA k : k # i)
    IN  [k \in 1..Len(others) |-> Len(players[others[k]].hand)]

nextPlayerHandSize(i) == Len(players[(i + 1) % 4].hand)

\* the move the bot turn effect computes for the current player
smartMove ==
    LET p == players[currentPlayerIndex]
    IN  getSmartBotPlay(p.hand,
                        IF lastPlayerId = p.id THEN NullHand ELSE lastPlayedHand,
                        isFirstTurn, opponentsHandSizes(currentPlayerIndex),
                        passCount, nextPlayerHandSize(currentPlayerIndex))

\* the move the timeout effect computes for the current player
dumbMove ==
    LET p == players[currentPlayerIndex]
        hasControl == lastPlayerId = p.id \/ lastPlayedHand = NullHand
    IN  getDumbBotPlay(p.hand, IF hasControl THEN NullHand ELSE lastPlayedHand,
                       isFirstTurn)

\* the effect that plays for a bot seat 1.2 s into its turn
BotTurn ==
    /\ isStarted
    /\ winnerId = NoId
    /\ players[currentPlayerIndex].isBot
    /\ IF smartMove # NullCards
       THEN processTurn(players[currentPlayerIndex].id, smartMove,
                        identifyHand(smartMove), FALSE)
       ELSE processTurn(players[currentPlayerIndex].id, NullCards, NullHand, FALSE)
    /\ pc' = "botTurn"
    /\ ret' = smartMove
    /\ UNCHANGED args

\* the effect that plays for a player who has not acted for 60 s; a bot seat
\* has acted long before
TimeoutTurn ==
    /\ isStarted
    /\ winnerId = NoId
    /\ ~players[currentPlayerIndex].isBot
    /\ IF dumbMove # NullCards
       THEN processTurn(players[currentPlayerIndex].id, dumbMove,
                        identifyHand(dumbMove), TRUE)
       ELSE processTurn(players[currentPlayerIndex].id, NullCards, NullHand, TRUE)
    /\ pc' = "timeoutTurn"
    /\ ret' = dumbMove
    /\ UNCHANGED args

StartGame == \E k \in 0..MaxShuffle : handleStartGame(k)

Init ==
    /\ pc = "idle"
    /\ args = <<>>
    /\ ret = NullCards
    /\ \E bots \in [Seats -> BOOLEAN] :
          players = [i \in Seats |-> PlayerOf(i, <<>>, bots[i], 0)]
    /\ currentPlayerIndex = 0
    /\ lastPlayedHand = NullHand
    /\ lastPlayerId = NoId
    /\ passCount = 0
    /\ winnerId = NoId
    /\ isStarted = FALSE

Next == StartGame \/ BotTurn \/ TimeoutTurn

Spec == Init /\ [][Next]_vars

\* C8: after handleStartGame has dealt, the current seat holds 13 cards with
\* 3 of clubs among them, and the opening move of either bot policy for that
\* seat is a play that contains 3 of clubs, never a pass.
C8_OpenerHoldsClub3 ==
    pc = "handleStartGame"
        => /\ isFirstTurn
           /\ Len(players[currentPlayerIndex].hand) = 13
           /\ hasClub3(players[currentPlayerIndex].hand)
           /\ smartMove # NullCards
           /\ hasClub3(smartMove)
           /\ dumbMove # NullCards
           /\ hasClub3(dumbMove)

\* a game was dealt in which a seat other than the first opens
C8_Witness ==
    /\ pc = "handleStartGame"
    /\ currentPlayerIndex # 0
    /\ hasClub3(players[currentPlayerIndex].hand)
    /\ hasClub3(smartMove)

(***************************************************************************)
(* hand-evaluator.ts: evaluateHand.  A CardCombination is the record       *)
(* [cards, hand, priority, category].                                      *)
(***************************************************************************)
CombinationOf(cs, h, p, cat) == [cards |-> cs, hand |-> h, priority |-> p, category |-> cat]

RECURSIVE insertByPriority(_, _)
\* x placed after every combination whose priority is not lower than its own
insertByPriority(sortedCombos, x) ==
    IF Len(sortedCombos) = 0 THEN <<x>>
    ELSE IF Head(sortedCombos).priority >= x.priority
    THEN <<Head(sortedCombos)>> \o insertByPriority(Tail(sortedCombos), x)
    ELSE <<x>> \o sortedCombos

RECURSIVE sortByPriority(_)
\* results.sort((a, b) => b.priority - a.priority): descending and stable
sortByPriority(combos) ==
    IF Len(combos) = 0 THEN <<>>
    ELSE insertByPriority(sortByPriority(SubSeq(combos, 1, Len(combos) - 1)),
                          combos[Len(combos)])

\* RANK_ORDER.slice(i, i + 5) for i = 0 .. RANK_ORDER.length - 5, then A-2-3-4-5
evaluatorWindows ==
    [i \in 1..(Len(allRanks) - 4) |-> SubSeq(allRanks, i, i + 4)]
        \o << <<"A", "2", "3", "4", "5">> >>

\* for each window whose ranks are all held, cards.find of each rank in turn
findAllStraights(cards) ==
    LET held == SelectSeq(evaluatorWindows,
                          LAMBDA w : \A j \in 1..5 : hasRank(cards, w[j]))
    IN  [k \in 1..Len(held) |->
            [j \in 1..5 |-> cards[FirstOfRank(cards, held[k][j])]]]

\* Four of a Kind: each quad with each card of another rank
evaluatorQuads(cards) ==
    LET cands == quadHands(cards)
        kept == SelectSeq(cands, LAMBDA g : identifyHand(g).type = "FourOfAKind")
    IN  [k \in 1..Len(kept) |->
            CombinationOf(kept[k], identifyHand(kept[k]),
                          identifyHand(kept[k]).strength + 10000, "bomb")]

\* Full House: each group of 3 or more with each other group of 2 or more
evaluatorFullHouses(cards) ==
    LET cands == fullHouseHands(cards)
        kept == SelectSeq(cands, LAMBDA g : identifyHand(g).type = "FullHouse")
    IN  [k \in 1..Len(kept) |->
            CombinationOf(kept[k], identifyHand(kept[k]),
                          identifyHand(kept[k]).strength, "five")]

\* Straight / Straight Flush: what findAllStraights picked, when classified
evaluatorStraights(cards) ==
    LET kept == SelectSeq(findAllStraights(cards),
                          LAMBDA g : identifyHand(g) # NullHand)
        flush(g) == identifyHand(g).type = "StraightFlush"
    IN  [k \in 1..Len(kept) |->
            CombinationOf(kept[k], identifyHand(kept[k]),
                          IF flush(kept[k]) THEN identifyHand(kept[k]).strength + 10000
                          ELSE identifyHand(kept[k]).strength,
                          IF flush(kept[k]) THEN "bomb" ELSE "five")]

findAllFiveCardHands(cards) ==
    sortByPriority(evaluatorQuads(cards) \o evaluatorFullHouses(cards)
                       \o evaluatorStraights(cards))

\* neighbours of equal rank in the sorted hand, strongest first
findAllPairs(cards) ==
    LET found == getAllPairs(cards)
    IN  sortByPriority([k \in 1..Len(found) |->
            CombinationOf(found[k], identifyHand(found[k]),
                          identifyHand(found[k]).strength, "pair")])

calculateStrength(bombs, fives, pairs, singles) ==
    Len(bombs) * 1000 + Len(fives) * 200 + Len(pairs) * 30
        - 5 * Len(SelectSeq(singles, LAMBDA c : getCardWeight(c) >= 40))

isBombCombination(c) == c.hand.type = "FourOfAKind" \/ c.hand.type = "StraightFlush"

\* the cards of a list of combinations (the ids collected into `used`)
cardsUsed(combos) == UNION {Range(combos[i].cards) : i \in 1..Len(combos)}

\* evaluateHand with the pairs left out of `used`
evaluateHand_PairsNotUsed(cards) ==
    LET sorted == sortCards(cards)
        fiveCards == findAllFiveCardHands(sorted)
        bombs == SelectSeq(fiveCards, isBombCombination)
        normalFives == SelectSeq(fiveCards, LAMBDA c : ~isBombCombination(c))
        pairs == findAllPairs(sorted)
        used == cardsUsed(bombs \o normalFives)
        singles == SelectSeq(sorted, LAMBDA c : c \notin used)
    IN  [bombs |-> bombs, fiveCards |-> normalFives, pairs |-> pairs,
         singles |-> singles,
         totalStrength |-> calculateStrength(bombs, normalFives, pairs, singles)]

evaluateHand(cards) ==
    LET sorted == sortCards(cards)
        fiveCards == findAllFiveCardHands(sorted)
        bombs == SelectSeq(fiveCards, isBombCombination)
        normalFives == SelectSeq(fiveCards, LAMBDA c : ~isBombCombination(c))
        pairs == findAllPairs(sorted)
        used == cardsUsed(bombs \o normalFives \o pairs)
        singles == SelectSeq(sorted, LAMBDA c : c \notin used)
    IN  [bombs |-> bombs, fiveCards |-> normalFives, pairs |-> pairs,
         singles |-> singles,
         totalStrength |-> calculateStrength(bombs, normalFives, pairs, singles)]

(***************************************************************************)
(* SpecEvaluate: evaluateHand applied to every hand made of the first      *)
(* EvalPool cards of evalPoolOrder.                                        *)
(***************************************************************************)
EvalPool == 12

\* a straight flush 3-7 of spades, a lower 3, a 2 and an ace for the wrap
\* windows, two more 3s for the quad, a second 7, a second 2, ...
evalPoolOrder ==
    <<CardOf("3", "Spades"), CardOf("4", "Spades"), CardOf("5", "Spades"),
      CardOf("6", "Spades"), CardOf("7", "Spades"), CardOf("3", "Clubs"),
      CardOf("2", "Spades"), CardOf("A", "Diamonds"), CardOf("3", "Diamonds"),
      CardOf("3", "Hearts"), CardOf("7", "Diamonds"), CardOf("2", "Hearts"),
      CardOf("8", "Spades"), CardOf("4", "Diamonds")>>

EvalHands == {HandOfSet(S) : S \in SUBSET {evalPoolOrder[i] : i \in 1..EvalPool}}

InitEvaluate ==
    /\ pc = "idle"
    /\ args \in EvalHands
    /\ ret = NullCards
    /\ NoGame

CallEvaluateHand ==
    /\ pc = "idle"
    /\ pc' = "evaluateHand"
    /\ ret' = evaluateHand(args)
    /\ UNCHANGED <<args, gameVars>>

NextEvaluate == CallEvaluateHand

SpecEvaluate == InitEvaluate /\ [][NextEvaluate]_vars

\* C11: the singles of an evaluation are distinct cards of the hand, none of
\* them is in a combination of bombs, fiveCards or pairs, and every card of the
\* hand is a single or in one of those combinations.
C11_SinglesAreTheUnusedCards ==
    pc = "evaluateHand"
        => LET used == cardsUsed(ret.bombs \o ret.fiveCards \o ret.pairs)
           IN  /\ ~HasRepeatedCard(ret.singles)
               /\ Range(ret.singles) \cap used = {}
               /\ Range(ret.singles) \cup used = Range(args)

\* a hand that has a five-card combination, a pair and singles left over
C11_Witness ==
    /\ pc = "evaluateHand"
    /\ Len(ret.fiveCards) > 0
    /\ Len(ret.pairs) > 0
    /\ Len(ret.singles) > 1
    /\ Len(ret.singles) < Len(args)

\* C12: for each of the ten straight windows whose five ranks are all in the
\* hand, the evaluation lists a Straight or StraightFlush on that window, in
\* fiveCards or in bombs.
C12_EveryWindowListed ==
    pc = "evaluateHand"
        => \A k \in 1..10 :
              Window(k) \subseteq RanksOf(args)
                => \E c \in Range(ret.fiveCards \o ret.bombs) :
                      /\ IsStraightType(c.hand)
                      /\ RanksOf(c.cards) = Window(k)

\* the five-card selections of one suit out of a hand
FlushFives(hand) ==
    UNION {{S \in SUBSET {c \in Range(hand) : c.suit = s} : Cardinality(S) = 5} :
            s \in Suits}

\* C13: when five cards of the hand are a StraightFlush for identifyHand, the
\* bombs of the evaluation hold a StraightFlush on the same ranks.
C13_StraightFlushListed ==
    pc = "evaluateHand"
        => \A S \in FlushFives(args) :
              identifyHand(HandOfSet(S)).type = "StraightFlush"
                => \E c \in Range(ret.bombs) :
                      /\ c.hand.type = "StraightFlush"
                      /\ RanksOf(c.cards) = RanksOf(HandOfSet(S))

(***************************************************************************)
(* SpecShuffle: shuffleDeck applied to the first n cards of createDeck,    *)
(* n up to MaxDeckLen, with every outcome of the random draws, and to the  *)
(* whole deck with each draw sequence of drawsOf.                          *)
(***************************************************************************)
MaxDeckLen == 5

\* every outcome of Math.random over the loop on n cards: j in 0..i at step i
AllDraws(n) == {f \in [1..(n - 1) -> 0..(n - 1)] : \A i \in 1..(n - 1) : f[i] <= i}

InitShuffle ==
    /\ pc = "idle"
    /\ \/ \E n \in 0..MaxDeckLen : \E f \in AllDraws(n) :
             args = [deck |-> SubSeq(createDeck, 1, n), draw |-> f]
       \/ \E k \in 0..MaxShuffle :
             args = [deck |-> createDeck, draw |-> drawsOf(k)]
    /\ ret = NullCards
    /\ NoGame

\* shuffleDeck works on the copy [...deck]: the caller's array is as it was
CallShuffleDeck ==
    /\ pc = "idle"
    /\ pc' = "shuffleDeck"
    /\ ret' = [deck |-> args.deck, shuffled |-> shuffleDeck(args.deck, args.draw)]
    /\ UNCHANGED <<args, gameVars>>

NextShuffle == CallShuffleDeck

SpecShuffle == InitShuffle /\ [][NextShuffle]_vars

\* the four hands handleStartGame deals from a deck
dealtHands(deck) == [i \in Seats |-> dealtPlayers(deck)[i].hand]

\* C14: createDeck is 52 pairwise distinct cards; shuffleDeck returns the cards
\* of its input, each once, and leaves the input as it was; the four slices
\* dealt from the shuffled deck are 13 cards each, pairwise disjoint, and
\* together the whole deck.
C14_ShuffleAndDealKeepTheDeck ==
    pc = "shuffleDeck"
        => /\ Len(createDeck) = 52
           /\ Cardinality(Range(createDeck)) = 52
           /\ Len(ret.shuffled) = Len(args.deck)
           /\ Range(ret.shuffled) = Range(args.deck)
           /\ ~HasRepeatedCard(ret.shuffled)
           /\ ret.deck = args.deck
           /\ Len(args.deck) = 52
                => /\ \A i \in Seats : Len(dealtHands(ret.shuffled)[i]) = 13
                   /\ \A i \in Seats : \A j \in Seats \ {i} :
                         Range(dealtHands(ret.shuffled)[i])
                             \cap Range(dealtHands(ret.shuffled)[j]) = {}
                   /\ UNION {Range(dealtHands(ret.shuffled)[i]) : i \in Seats}
                         = Range(createDeck)

\* the whole deck was shuffled into another order and every seat got ranks
\* of more than one suit
C14_Witness ==
    /\ pc = "shuffleDeck"
    /\ Len(args.deck) = 52
    /\ ret.shuffled # args.deck
    /\ \A i \in Seats :
          Cardinality({dealtHands(ret.shuffled)[i][k].suit : k \in 1..13}) > 1

(***************************************************************************)
(* SpecFaceOff: compareHands applied to the hands identifyHand makes of    *)
(* two disjoint card groups of one deck and one kind: two singles, two     *)
(* pairs, two five-card runs of ranks, two full houses, two quads with a   *)
(* kicker, two 13-card groups.                                             *)
(***************************************************************************)
FaceSuits == 2

\* the suits of the FaceSuits lowest suit orders
LowSuits == {s \in Suits : SuitOrder[s] < FaceSuits}

\* five ranks in a row from allRanks[i], going round from 2 to 3
CyclicRun(i) == [j \in 1..5 |-> allRanks[((i + j - 2) % Len(allRanks)) + 1]]

FaceSingles == {<<c>> : c \in Cards}

FacePairs ==
    {<<CardOf(r, s1), CardOf(r, s2)>> :
        r \in RankSet, s1 \in Suits, s2 \in Suits} \ {<<c, c>> : c \in Cards}

FaceRuns ==
    {[j \in 1..5 |-> CardOf(CyclicRun(i)[j], f[j])] :
        i \in 1..Len(allRanks), f \in [1..5 -> LowSuits]}

\* three cards of the lowest or the highest rank with two of a middle rank
FaceFullHouses ==
    {<<CardOf(r[1], t[1]), CardOf(r[1], t[2]), CardOf(r[1], t[3]),
       CardOf(r[2], q[1]), CardOf(r[2], q[2])>> :
        r \in {<<"3", "8">>, <<"3", "K">>, <<"2", "8">>, <<"2", "K">>},
        t \in {u \in [1..3 -> Suits] : SuitOrder[u[1]] < SuitOrder[u[2]]
                                        /\ SuitOrder[u[2]] < SuitOrder[u[3]]},
        q \in {u \in [1..2 -> Suits] : SuitOrder[u[1]] < SuitOrder[u[2]]}}

\* the four cards of a rank with a kicker below or above
FaceQuads ==
    {g \in {<<CardOf(r, "Clubs"), CardOf(r, "Diamonds"), CardOf(r, "Hearts"),
               CardOf(r, "Spades"), k>> :
                r \in RankSet, k \in {CardOf("3", "Clubs"), CardOf("2", "Spades"),
                                      CardOf("8", "Hearts")}} :
        g[5].rank # g[1].rank}

\* one card of each rank: a whole suit, or the ranks in two alternating suits
FaceDragons ==
    {[j \in 1..13 |-> CardOf(allRanks[j], s)] : s \in Suits}
        \cup {[j \in 1..13 |-> CardOf(allRanks[j], IF j % 2 = 0 THEN s[1] ELSE s[2])] :
                s \in {<<"Clubs", "Diamonds">>, <<"Diamonds", "Clubs">>,
                       <<"Hearts", "Spades">>, <<"Spades", "Hearts">>}}

FaceKinds ==
    {FaceSingles, FacePairs, FaceRuns, FaceFullHouses, FaceQuads, FaceDragons}

InitFaceOff ==
    /\ pc = "idle"
    /\ \E kind \in FaceKinds :
       \E g1 \in kind :
       \E g2 \in kind :
          /\ Range(g1) \cap Range(g2) = {}
          /\ identifyHand(g1) # NullHand
          /\ identifyHand(g2) # NullHand
          /\ args = [newHand |-> identifyHand(g1), prevHand |-> identifyHand(g2)]
    /\ ret = FALSE
    /\ NoGame

NextFaceOff == CallCompareHands

SpecFaceOff == InitFaceOff /\ [][NextFaceOff]_vars

\* C15: of two valid hands of the same type and the same number of cards,
\* made of disjoint cards of one deck, exactly one beats the other.
C15_ExactlyOneBeats ==
    (/\ pc = "compareHands"
     /\ args.newHand.type = args.prevHand.type
     /\ Len(args.newHand.cards) = Len(args.prevHand.cards))
        => /\ args.newHand.strength # args.prevHand.strength
           /\ ret # compareHands(args.prevHand, args.newHand)

(***************************************************************************)
(* SpecDumb: getDumbBotPlay applied to every hand of BotHands, with        *)
(* isFirstTurn true and false, leading and following each hand of          *)
(* ReferenceHands.                                                         *)
(***************************************************************************)
InitDumb ==
    /\ pc = "idle"
    /\ \E h \in BotHands, last \in ReferenceHands \cup {NullHand}, first \in BOOLEAN :
          args = BotArgs(h, last, first, <<13, 13, 13>>)
    /\ ret = NullCards
    /\ NoGame

CallDumbBotPlay ==
    /\ pc = "idle"
    /\ pc' = "getDumbBotPlay"
    /\ ret' = getDumbBotPlay(args.hand, args.lastPlayed, args.isFirstTurn)
    /\ UNCHANGED <<args, gameVars>>

NextDumb == CallDumbBotPlay

SpecDumb == InitDumb /\ [][NextDumb]_vars

\* the card of least weight in a non-empty set of cards
LowestOf(S) == CHOOSE c \in S : \A d \in S : getCardWeight(c) <= getCardWeight(d)

\* the card of greatest weight in a non-empty set of cards
HighestOf(S) == CHOOSE c \in S : \A d \in S : getCardWeight(c) >= getCardWeight(d)

\* the cards of a hand that beat a Single of the given strength
Beating(hand, strength) == {c \in Range(hand) : getCardWeight(c) > strength}

\* C16: getDumbBotPlay returns null or one card of the hand: 3 of clubs on the
\* first turn when held, the lowest card when leading, the lowest card above
\* the reference when following a Single, and null when following another type
\* or when no card beats the Single.
C16_DumbPlaysOneCardOrPasses ==
    pc = "getDumbBotPlay"
        => /\ ret = NullCards \/ (Len(ret) = 1 /\ ret[1] \in Range(args.hand))
           /\ (args.isFirstTurn /\ hasClub3(args.hand)) => ret = <<Club3>>
           /\ (~args.isFirstTurn /\ args.lastPlayed = NullHand)
                => ret = <<LowestOf(Range(args.hand))>>
           /\ (~args.isFirstTurn /\ args.lastPlayed.type = "Single")
                => ret = IF Beating(args.hand, args.lastPlayed.strength) = {}
                         THEN NullCards
                         ELSE <<LowestOf(Beating(args.hand, args.lastPlayed.strength))>>
           /\ (/\ ~args.isFirstTurn
               /\ args.lastPlayed # NullHand
               /\ args.lastPlayed.type # "Single") => ret = NullCards

\* a Single was followed with a card that is not the lowest of the hand
C16_Witness ==
    /\ pc = "getDumbBotPlay"
    /\ ~args.isFirstTurn
    /\ args.lastPlayed.type = "Single"
    /\ ret # NullCards
    /\ ret[1] # args.hand[1]

(***************************************************************************)
(* getSmartBotPlay following a Single, following a Pair and leading,       *)
(* under SpecBot.                                                          *)
(***************************************************************************)
\* the FourOfAKind and StraightFlush combinations of a hand, as enumerated
BombsIn(hand) == SelectSeq(findFiveCardHands(hand), LAMBDA f : isBomb(identifyHand(f)))

\* cards are the same cards as the first enumerated bomb of the hand
IsFirstBombOf(cards, hand) ==
    /\ Len(BombsIn(hand)) > 0
    /\ Len(cards) = 5
    /\ Range(cards) = Range(BombsIn(hand)[1])

SomeOpponentNearlyOut(sizes) == \E i \in 1..Len(sizes) : sizes[i] <= 3

\* the strengths above `strength` of the pairs that can be made from a hand
PairStrengthsAbove(hand, strength) ==
    {MaxOf(getCardWeight(q[1]), getCardWeight(q[2])) :
        q \in {p \in Range(hand) \X Range(hand) :
                  p[1].rank = p[2].rank /\ p[1] # p[2]}}
        \ (0..strength)

LeastOf(S) == CHOOSE n \in S : \A k \in S : n <= k

\* cards are two cards of the hand that make a pair of the given strength
IsPairOfStrength(cards, hand, strength) ==
    /\ Len(cards) = 2
    /\ IsSelectionOf(cards, hand)
    /\ identifyHand(cards) = HandOf(sortCards(cards), "Pair", strength)

\* C17: following a Single, with the next player on one card the bot plays its
\* highest card if that beats the reference, else its first bomb, else passes;
\* otherwise it plays the lowest beating card that is not a 2, else the lowest
\* beating 2, else its first bomb if an opponent has at most 3 cards or its own
\* hand at most 5, else passes.
C17_FollowSingle ==
    (/\ pc = "getSmartBotPlay"
     /\ ~args.isFirstTurn
     /\ args.lastPlayed.type = "Single")
        => LET beating == Beating(args.hand, args.lastPlayed.strength)
               nonTwos == {c \in beating : c.rank # "2"}
               top == HighestOf(Range(args.hand))
           IN  IF args.nextPlayerHandSize = 1
               THEN IF top \in beating THEN ret = <<top>>
                    ELSE IF Len(BombsIn(args.hand)) > 0
                    THEN IsFirstBombOf(ret, args.hand)
                    ELSE ret = NullCards
               ELSE IF nonTwos # {} THEN ret = <<LowestOf(nonTwos)>>
               ELSE IF beating # {} THEN ret = <<LowestOf(beating)>>
               ELSE IF /\ Len(BombsIn(args.hand)) > 0
                       /\ \/ SomeOpponentNearlyOut(args.opponentsHandSizes)
                          \/ Len(args.hand) <= 5
               THEN IsFirstBombOf(ret, args.hand)
               ELSE ret = NullCards

\* with the next player on one card, the highest card went out although a lower
\* card also beat the Single
C17_Witness ==
    /\ pc = "getSmartBotPlay"
    /\ ~args.isFirstTurn
    /\ args.lastPlayed.type = "Single"
    /\ args.nextPlayerHandSize = 1
    /\ Len(ret) = 1
    /\ ret # NullCards
    /\ Cardinality(Beating(args.hand, args.lastPlayed.strength)) > 1

\* C18: following a Pair, the bot plays a pair of the least strength above the
\* reference, but passes when that pair is of 2s, no opponent has 3 or fewer
\* cards and its own hand has more than 5; with no pair above the reference it
\* plays its first bomb, else passes.
C18_FollowPair ==
    (/\ pc = "getSmartBotPlay"
     /\ ~args.isFirstTurn
     /\ args.lastPlayed.type = "Pair")
        => LET above == PairStrengthsAbove(args.hand, args.lastPlayed.strength)
           IN  IF above # {}
               THEN IF /\ LeastOf(above) \div 10 = RankOrder["2"]
                       /\ ~SomeOpponentNearlyOut(args.opponentsHandSizes)
                       /\ Len(args.hand) > 5
                    THEN ret = NullCards
                    ELSE IsPairOfStrength(ret, args.hand, LeastOf(above))
               ELSE IF Len(BombsIn(args.hand)) > 0
               THEN IsFirstBombOf(ret, args.hand)
               ELSE ret = NullCards

\* the bot held back its pair of 2s, the only pair above the reference
C18_Witness ==
    /\ pc = "getSmartBotPlay"
    /\ ~args.isFirstTurn
    /\ args.lastPlayed.type = "Pair"
    /\ PairStrengthsAbove(args.hand, args.lastPlayed.strength) # {}
    /\ ret = NullCards

\* C19: leading with more than 5 cards, the bot never plays a FourOfAKind or a
\* StraightFlush: it plays an enumerated five-card combination that is no bomb
\* if there is one, else a pair of the least strength, else its lowest card.
C19_LeadKeepsBombs ==
    (/\ pc = "getSmartBotPlay"
     /\ ~args.isFirstTurn
     /\ args.lastPlayed = NullHand
     /\ Len(args.hand) > 5)
        => LET fives == findFiveCardHands(args.hand)
               nonBombs == {i \in 1..Len(fives) :
                               /\ identifyHand(fives[i]) # NullHand
                               /\ ~isBomb(identifyHand(fives[i]))}
               pairs == PairStrengthsAbove(args.hand, -1)
           IN  /\ ~isBomb(identifyHand(ret))
               /\ IF nonBombs # {}
                  THEN \E i \in nonBombs : ret = fives[i]
                  ELSE IF pairs # {}
                  THEN IsPairOfStrength(ret, args.hand, LeastOf(pairs))
                  ELSE ret = <<LowestOf(Range(args.hand))>>

\* a hand whose only five-card combinations are bombs led with a pair
C19_Witness ==
    /\ pc = "getSmartBotPlay"
    /\ ~args.isFirstTurn
    /\ args.lastPlayed = NullHand
    /\ Len(args.hand) > 5
    /\ Len(BombsIn(args.hand)) > 0
    /\ Len(ret) = 2

(***************************************************************************)
(* SpecQuad: identifyHand applied to every group of the four cards of one  *)
(* rank and one card of another rank, the kicker given first or last.      *)
(***************************************************************************)
\* the four cards of a rank, in createDeck's suit order
quadOf(r) == [j \in 1..4 |-> CardOf(r, deckSuits[j])]

InitQuad ==
    /\ pc = "idle"
    /\ \E r \in RankSet :
       \E kicker \in {c \in Cards : c.rank # r} :
          \/ args = quadOf(r) \o <<kicker>>
          \/ args = <<kicker>> \o quadOf(r)
    /\ ret = NullHand
    /\ NoGame

NextQuad == CallIdentifyHand

SpecQuad == InitQuad /\ [][NextQuad]_vars

\* the rank that four cards of a group have
QuadRank(cards) == CHOOSE r \in RankSet : CountOfRank(cards, r) = 4

\* C20: five distinct cards that are the four cards of one rank and a card of
\* another rank are a FourOfAKind whose strength is the rank order of the
\* quad's rank, whatever the kicker.
C20_QuadStrengthIsQuadRank ==
    (/\ pc = "identifyHand"
     /\ Len(args) = 5
     /\ ~HasRepeatedCard(args)
     /\ RankCounts(args) = {4, 1})
        => /\ ret.type = "FourOfAKind"
           /\ ret.strength = RankOrder[QuadRank(args)]
           /\ ret.strength \in 0..12

\* a quad was classified whose kicker sorts below it
C20_Witness ==
    /\ pc = "identifyHand"
    /\ RankCounts(args) = {4, 1}
    /\ ret.type = "FourOfAKind"
    /\ ret.cards[1].rank # QuadRank(args)
    /\ ret.strength = RankOrder[ret.cards[5].rank]

(***************************************************************************)
(* SpecFullHouse: identifyHand applied to every group of three cards of    *)
(* one rank and two cards of another rank, triple first or pair first.     *)
(***************************************************************************)
\* the cards of rank r whose suits are in S, in createDeck's suit order
cardsOfRank(r, S) ==
    SelectSeq([j \in 1..4 |-> CardOf(r, deckSuits[j])], LAMBDA c : c.suit \in S)

InitFullHouse ==
    /\ pc = "idle"
    /\ \E r3 \in RankSet :
       \E r2 \in RankSet \ {r3} :
       \E S3 \in {S \in SUBSET Suits : Cardinality(S) = 3} :
       \E S2 \in {S \in SUBSET Suits : Cardinality(S) = 2} :
          \/ args = cardsOfRank(r3, S3) \o cardsOfRank(r2, S2)
          \/ args = cardsOfRank(r2, S2) \o cardsOfRank(r3, S3)
    /\ ret = NullHand
    /\ NoGame

NextFullHouse == CallIdentifyHand

SpecFullHouse == InitFullHouse /\ [][NextFullHouse]_vars

\* the rank that three cards of a group have
TripleRank(cards) == CHOOSE r \in RankSet : CountOfRank(cards, r) = 3

\* C21: five distinct cards that are three of one rank and two of another are a
\* FullHouse whose strength is the rank order of the triple's rank, whether the
\* triple ranks below or above the pair.
C21_FullHouseStrengthIsTripleRank ==
    (/\ pc = "identifyHand"
     /\ Len(args) = 5
     /\ ~HasRepeatedCard(args)
     /\ RankCounts(args) = {3, 2})
        => /\ ret.type = "FullHouse"
           /\ ret.strength = RankOrder[TripleRank(args)]

\* a full house was classified whose triple ranks above its pair
C21_Witness ==
    /\ pc = "identifyHand"
    /\ RankCounts(args) = {3, 2}
    /\ ret.type = "FullHouse"
    /\ ret.cards[1].rank # TripleRank(args)
    /\ ret.cards[5].rank = TripleRank(args)
    /\ ret.strength = RankOrder[ret.cards[5].rank]

(***************************************************************************)
(* SpecPair: identifyHand applied to every two distinct cards of the deck. *)
(***************************************************************************)
InitPair ==
    /\ pc = "idle"
    /\ \E c \in Cards :
       \E d \in Cards \ {c} :
          args = <<c, d>>
    /\ ret = NullHand
    /\ NoGame

NextPair == CallIdentifyHand

SpecPair == InitPair /\ [][NextPair]_vars

\* C22: two distinct cards are a Pair exactly when their ranks are equal, with
\* the larger of the two card weights (rank order * 10 + suit order) as
\* strength; two cards of different ranks give null.
C22_PairIffEqualRanks ==
    (pc = "identifyHand" /\ Len(args) = 2 /\ args[1] # args[2])
        => LET w1 == RankOrder[args[1].rank] * 10 + SuitOrder[args[1].suit]
               w2 == RankOrder[args[2].rank] * 10 + SuitOrder[args[2].suit]
           IN  IF args[1].rank = args[2].rank
               THEN /\ ret.type = "Pair"
                    /\ ret.strength = IF w1 > w2 THEN w1 ELSE w2
               ELSE ret = NullHand

\* a pair was classified whose stronger card was given first
C22_Witness ==
    /\ pc = "identifyHand"
    /\ Len(args) = 2
    /\ ret.type = "Pair"
    /\ getCardWeight(args[1]) > getCardWeight(args[2])
    /\ ret.strength = getCardWeight(args[1])

(***************************************************************************)
(* SpecDragon: identifyHand applied to 13 distinct cards: one card of each *)
(* rank, the DragonVary highest ranks in every suit and the others in one  *)
(* suit, and such a group with one card replaced by a second card of a     *)
(* neighbouring rank.                                                      *)
(***************************************************************************)
DragonVary == 4

\* one card of each rank, in rank order
OneOfEach ==
    {[j \in 1..13 |-> CardOf(allRanks[j], IF j > 13 - DragonVary THEN f[j] ELSE s)] :
        s \in Suits, f \in [(14 - DragonVary)..13 -> Suits]}

\* a suit other than s
otherSuit(s) == IF s = "Spades" THEN "Hearts" ELSE "Spades"

\* g with the card at j replaced by another card of the rank at j's neighbour
withRepeatedRank(g, j) ==
    LET k == (j % 13) + 1
    IN  [g EXCEPT ![j] = CardOf(g[k].rank, otherSuit(g[k].suit))]

InitDragon ==
    /\ pc = "idle"
    /\ \E g \in OneOfEach :
          \/ args = g
          \/ \E j \in 1..13 : args = withRepeatedRank(g, j)
    /\ ret = NullHand
    /\ NoGame

NextDragon == CallIdentifyHand

SpecDragon == InitDragon /\ [][NextDragon]_vars

\* C23: 13 distinct cards are a Dragon exactly when their 13 ranks are all
\* different, with the weight of the highest card held as strength; 13 distinct
\* cards with a repeated rank give null.
C23_DragonIffAllRanks ==
    (pc = "identifyHand" /\ Len(args) = 13 /\ ~HasRepeatedCard(args))
        => IF Cardinality(RanksOf(args)) = 13
           THEN /\ ret.type = "Dragon"
                /\ ret.strength = getCardWeight(HighestOf(Range(args)))
                /\ HighestOf(Range(args)).rank = "2"
           ELSE ret = NullHand

\* a Dragon of mixed suits was classified
C23_Witness ==
    /\ pc = "identifyHand"
    /\ Len(args) = 13
    /\ ret.type = "Dragon"
    /\ Cardinality({args[j].suit : j \in 1..13}) > 1
    /\ ret.strength = getCardWeight(CardOf("2", "Diamonds"))

(***************************************************************************)
(* bot-strategy.ts: chooseBestMove, the lookahead bot.  A score is an      *)
(* integer or -Infinity (NegInfinity).                                     *)
(***************************************************************************)
\* -Infinity: below every score, and absorbing under addition
NegInfinity == -1000000

plus(a, b) == IF a = NegInfinity \/ b = NegInfinity THEN NegInfinity ELSE a + b

\* removeCards(all, used) of bot-strategy.ts: all without the ids of used
removeUsed(all, used) == SelectSeq(all, LAMBDA c : c \notin Range(used))

canBeat(my, last) ==
    IF isBomb(my) /\ ~isBomb(last) THEN TRUE
    ELSE IF my.type # last.type THEN FALSE
    ELSE my.strength > last.strength

\* evaluation.singles.map(c => ({cards: [c], hand, priority, category}))
singleMoves(singles) ==
    [i \in 1..Len(singles) |->
        CombinationOf(<<singles[i]>>, identifyHand(<<singles[i]>>),
                      getCardWeight(singles[i]), "single")]

getAllLegalMoves(cards, evaluation, last) ==
    IF last = NullHand
    THEN evaluation.fiveCards \o evaluation.pairs \o singleMoves(evaluation.singles)
    ELSE SelectSeq(evaluation.bombs \o evaluation.fiveCards \o evaluation.pairs
                       \o singleMoves(evaluation.singles),
                   LAMBDA mv : canBeat(mv.hand, last))

evaluateEndState(cards) ==
    -(Len(cards) * 10)
        - 5 * Len(SelectSeq(cards, LAMBDA c : getCardWeight(c) >= 40))

moveCost(move, evaluation) ==
    LET protectedIds == cardsUsed(evaluation.fiveCards \o evaluation.bombs)
        breaking == SelectSeq(move.cards,
                        LAMBDA c : c \in protectedIds /\ Len(move.cards) < 5)
    IN  (IF move.category = "single" THEN 2 ELSE 0)
            + (IF move.category = "pair" THEN 3 ELSE 0)
            + 20 * Len(breaking)
            + (IF move.category = "bomb" THEN 10 ELSE 0)

immediateScore(move, evaluation) ==
    Len(move.cards) * 15
        + (IF move.category = "five" THEN 20 ELSE 0)
        + (IF move.category = "bomb" THEN 50 ELSE 0)
        - moveCost(move, evaluation)

dangerAdjustment(move, dangerousOpponent) ==
    IF ~dangerousOpponent THEN 0
    ELSE IF move.category = "bomb" THEN 30
    ELSE IF move.category = "single" /\ getCardWeight(move.cards[1]) < 30 THEN -20
    ELSE 0

\* Math.max over a sequence of scores, -Infinity when there is none
bestScore(scores) ==
    IF \E i \in 1..Len(scores) : scores[i] # NegInfinity
    THEN CHOOSE x \in Range(scores) : \A i \in 1..Len(scores) : scores[i] <= x
    ELSE NegInfinity

RECURSIVE simulateFuture(_, _)
\* the loop of simulateFuture over moves: the best of -moveCost + future
simulateMoves(cards, evalHand, moves, depth) ==
    bestScore([i \in 1..Len(moves) |->
        plus(-moveCost(moves[i], evalHand),
             simulateFuture(removeUsed(cards, moves[i].cards), depth - 1))])

\* simulateFuture after const evalHand = evaluateHand(cards)
simulateEvaluated(cards, evalHand, depth) ==
    simulateMoves(cards, evalHand,
                  evalHand.fiveCards \o evalHand.pairs
                      \o singleMoves(evalHand.singles),
                  depth)

simulateFuture(cards, depth) ==
    IF depth = 0 \/ Len(cards) = 0 THEN evaluateEndState(cards)
    ELSE simulateEvaluated(cards, evaluateHand(cards), depth)

\* scored.sort((a, b) => b.score - a.score)[0]: the first move of highest score
firstBest(scores) ==
    CHOOSE i \in 1..Len(scores) :
        /\ \A j \in 1..Len(scores) : scores[j] <= scores[i]
        /\ \A j \in 1..(i - 1) : scores[j] < scores[i]

\* legalMoves.map(move => ({move, score: futureScore + immediateScore +
\* dangerAdjustment}))
scoredMoves(cards, evaluation, legalMoves, dangerousOpponent) ==
    [i \in 1..Len(legalMoves) |->
        plus(plus(simulateFuture(removeUsed(cards, legalMoves[i].cards), 2),
                  immediateScore(legalMoves[i], evaluation)),
             dangerAdjustment(legalMoves[i], dangerousOpponent))]

\* chooseBestMove after const legalMoves = getAllLegalMoves(...)
chooseAmong(cards, evaluation, context, legalMoves) ==
    IF Len(legalMoves) = 0 THEN NullCards
    ELSE legalMoves[firstBest(scoredMoves(cards, evaluation, legalMoves,
                        dangerous(context.opponentsHandSizes)))].cards

chooseBestMove(cards, evaluation, context) ==
    chooseAmong(cards, evaluation, context,
                getAllLegalMoves(cards, evaluation, context.lastPlayedHand))

(***************************************************************************)
(* SpecLookahead: chooseBestMove applied to every non-empty hand made of   *)
(* the first LookPool cards of evalPoolOrder with evaluation =             *)
(* evaluateHand(cards), leading and following each hand of ReferenceHands, *)
(* with and without an opponent on 3 cards.                                *)
(***************************************************************************)
LookPool == 10

LookHands ==
    {HandOfSet(S) : S \in SUBSET {evalPoolOrder[i] : i \in 1..LookPool}} \ {<<>>}

InitLookahead ==
    /\ pc = "idle"
    /\ \E h \in LookHands, last \in ReferenceHands \cup {NullHand},
          sizes \in {<<13, 13, 13>>, <<13, 3, 13>>} :
          args = BotArgs(h, last, FALSE, sizes)
    /\ ret = NullCards
    /\ NoGame

\* the context object of a call made with args
contextOf(a) ==
    [myHandSize |-> Len(a.hand), opponentsHandSizes |-> a.opponentsHandSizes,
     lastPlayedHand |-> a.lastPlayed, consecutivePasses |-> a.consecutivePasses]

CallChooseBestMove ==
    /\ pc = "idle"
    /\ pc' = "chooseBestMove"
    /\ ret' = chooseBestMove(args.hand, evaluateHand(args.hand), contextOf(args))
    /\ UNCHANGED <<args, gameVars>>

NextLookahead == CallChooseBestMove

SpecLookahead == InitLookahead /\ [][NextLookahead]_vars

\* the combinations chooseBestMove filters when it follows a hand
Candidates(hand) ==
    LET e == evaluateHand(hand)
    IN  Range(e.bombs \o e.fiveCards \o e.pairs \o singleMoves(e.singles))

\* C24: following a reference hand, a candidate combination is kept as a legal
\* move exactly when compareHands(candidate.hand, reference) is true.
C24_LegalMovesAgreeWithComparator ==
    (pc = "chooseBestMove" /\ args.lastPlayed # NullHand)
        => \A c \in Candidates(args.hand) :
              c \in Range(getAllLegalMoves(args.hand, evaluateHand(args.hand),
                                           args.lastPlayed))
                <=> compareHands(c.hand, args.lastPlayed)

\* C30: leading with a non-empty hand, chooseBestMove returns a move.
C30_LookaheadNeverPassesOnLead ==
    (/\ pc = "chooseBestMove"
     /\ args.lastPlayed = NullHand
     /\ Len(args.hand) > 0)
        => ret # NullCards

(***************************************************************************)
(* SpecPenalty: evaluateEndState and calculateStrength applied to leftover *)
(* cards: every card alone, and every two cards of the diamonds suit.      *)
(***************************************************************************)
Leftovers ==
    {<<c>> : c \in Cards}
        \cup {<<CardOf(r1, "Diamonds"), CardOf(r2, "Diamonds")>> :
                r1 \in RankSet, r2 \in RankSet}

InitPenalty ==
    /\ pc = "idle"
    /\ args \in {g \in Leftovers : ~HasRepeatedCard(g)}
    /\ ret = 0
    /\ NoGame

CallEvaluateEndState ==
    /\ pc = "idle"
    /\ pc' = "evaluateEndState"
    /\ ret' = evaluateEndState(args)
    /\ UNCHANGED <<args, gameVars>>

\* calculateStrength with no combination: the leftover cards are the singles
CallCalculateStrength ==
    /\ pc = "idle"
    /\ pc' = "calculateStrength"
    /\ ret' = calculateStrength(<<>>, <<>>, <<>>, args)
    /\ UNCHANGED <<args, gameVars>>

NextPenalty == CallEvaluateEndState \/ CallCalculateStrength

SpecPenalty == InitPenalty /\ [][NextPenalty]_vars

\* the leftover cards that are an ace or a 2
AcesAndTwos(cards) == {i \in 1..Len(cards) : cards[i].rank \in {"A", "2"}}

\* C25: both heuristics subtract 5 for a leftover card exactly when it is an
\* ace or a 2: evaluateEndState is -10 per card and -5 per ace or 2, and
\* calculateStrength of singles alone is -5 per ace or 2.
C25_PenaltyOnlyOnAcesAndTwos ==
    /\ pc = "evaluateEndState"
         => ret = -(10 * Len(args)) - 5 * Cardinality(AcesAndTwos(args))
    /\ pc = "calculateStrength"
         => ret = -(5 * Cardinality(AcesAndTwos(args)))

(***************************************************************************)
(* SpecOrder: compareHands applied to the pairs of three hands a, b, c     *)
(* that identifyHand produced: the hands of ReferenceHands and of the      *)
(* first OrderPool groups of orderGroups.                                  *)
(***************************************************************************)
OrderPool == 8

\* a second Dragon, a straight flush and a four of a kind of low strength, a
\* straight on J-Q-K-A-2, a low single and pair, ...
orderGroups ==
    <<SubSeq(createDeck, 14, 26),
      <<CardOf("3", "Clubs"), CardOf("4", "Clubs"), CardOf("5", "Clubs"),
        CardOf("6", "Clubs"), CardOf("7", "Clubs")>>,
      <<CardOf("3", "Clubs"), CardOf("3", "Diamonds"), CardOf("3", "Hearts"),
        CardOf("3", "Spades"), CardOf("2", "Spades")>>,
      <<CardOf("J", "Hearts"), CardOf("Q", "Hearts"), CardOf("K", "Hearts"),
        CardOf("A", "Hearts"), CardOf("2", "Clubs")>>,
      <<CardOf("3", "Clubs")>>,
      <<CardOf("3", "Clubs"), CardOf("3", "Diamonds")>>,
      <<CardOf("2", "Clubs"), CardOf("3", "Clubs"), CardOf("4", "Clubs"),
        CardOf("5", "Clubs"), CardOf("6", "Diamonds")>>,
      <<CardOf("2", "Clubs"), CardOf("2", "Diamonds"), CardOf("2", "Hearts"),
        CardOf("9", "Hearts"), CardOf("9", "Spades")>>,
      <<CardOf("2", "Spades")>>,
      <<CardOf("2", "Hearts"), CardOf("2", "Spades")>>>>

OrderHands ==
    ReferenceHands \cup {identifyHand(orderGroups[i]) : i \in 1..OrderPool}

InitOrder ==
    /\ pc = "idle"
    /\ args \in [a : OrderHands, b : OrderHands, c : OrderHands]
    /\ ret = FALSE
    /\ NoGame

CallCompareChain ==
    /\ pc = "idle"
    /\ pc' = "compareChain"
    /\ ret' = [aa |-> compareHands(args.a, args.a),
               ab |-> compareHands(args.a, args.b),
               ba |-> compareHands(args.b, args.a),
               bc |-> compareHands(args.b, args.c),
               ac |-> compareHands(args.a, args.c)]
    /\ UNCHANGED <<args, gameVars>>

NextOrder == CallCompareChain

SpecOrder == InitOrder /\ [][NextOrder]_vars

\* C26: over hands that identifyHand produces, compareHands is a strict partial
\* order: no hand beats itself, two hands never beat each other, and a beats b
\* with b beats c implies a beats c.
C26_StrictPartialOrder ==
    pc = "compareChain"
        => /\ ~ret.aa
           /\ ~(ret.ab /\ ret.ba)
           /\ (ret.ab /\ ret.bc) => ret.ac

\* a chain through a bomb: a StraightFlush beats a FourOfAKind that beats a Dragon
C26_Witness ==
    /\ pc = "compareChain"
    /\ args.a.type = "StraightFlush"
    /\ args.b.type = "FourOfAKind"
    /\ args.c.type = "Dragon"
    /\ ret.ab
    /\ ret.bc
    /\ ret.ac

(***************************************************************************)
(* SpecLive: the game of Spec in which the two timers fire: the bot turn   *)
(* effect's setTimeout (1.2 s) and the timeout effect's interval (60 s)    *)
(* are re-armed on every turn, so an enabled turn is eventually taken.     *)
(***************************************************************************)
\* the bot turn effect has a turn to take: ENABLED <<BotTurn>>_vars written
\* out, since processTurn always moves currentPlayerIndex or ends the game
BotPending ==
    /\ isStarted
    /\ winnerId = NoId
    /\ players[currentPlayerIndex].isBot

\* weak fairness of BotTurn, by its definition, with BotPending for ENABLED
BotTimerFires == []<>(~BotPending) \/ []<><<BotTurn>>_vars

SpecLive == Spec /\ WF_vars(TimeoutTurn) /\ BotTimerFires

\* C27: a started game driven by the bot turn effect and the timeout effect
\* eventually has a winner.
C27_BotGameEnds == isStarted ~> (winnerId # NoId)

\* a game was won on a turn of the bot driver by a seat that started as a bot
C27_Witness ==
    /\ winnerId # NoId
    /\ ~isStarted
    /\ pc = "botTurn"
    /\ Len(players[currentPlayerIndex].hand) = 0
    /\ lastPlayerId = winnerId


(***************************************************************************)
(* GameTable.tsx and page.tsx: the human at the host's seat.  The client   *)
(* of seat 0 toggles cards of its hand, presses the play button (enabled   *)
(* by canPlay) and the pass button; the other seats are bots.  The         *)
(* selection is GameTable's state selectedCards, kept in args: it is       *)
(* cleared by handlePlay only, so it survives a turn the timeout played.   *)
(***************************************************************************)
myPlayerId == playerIds[0]

selectedCards == args

\* the cards of the hand the human reaches for: the lowest TableReach cards
TableReach == 2

\* the most cards the human selects at a time
MaxSelected == 2

\* the human uses the buttons while every seat holds at least TableCards
\* cards; later turns of the human are left to the timeout
TableCards == 10

me == players[seatOf(myPlayerId)]

isMyTurn == isStarted /\ players[currentPlayerIndex].id = myPlayerId

atTable == \A i \in Seats : Len(players[i].hand) >= TableCards

currentHandType == identifyHand(selectedCards)

canPlay ==
    /\ isMyTurn
    /\ currentHandType \notin {NullHand, ThrownHand}
    /\ \/ lastPlayedHand = NullHand
       \/ compareHands(currentHandType, lastPlayedHand)
       \/ lastPlayerId = myPlayerId

\* the pass button's disabled attribute, negated
canPass ==
    /\ isMyTurn
    /\ lastPlayerId # myPlayerId
    /\ lastPlayedHand # NullHand

\* a click on a card of the displayed hand
toggleCard(card) ==
    /\ isMyTurn
    /\ atTable
    /\ \E i \in 1..Len(me.hand) : i <= TableReach /\ me.hand[i] = card
    /\ IF \E i \in 1..Len(selectedCards) : selectedCards[i] = card
       THEN args' = SelectSeq(selectedCards, LAMBDA c : c # card)
       ELSE /\ Len(selectedCards) < MaxSelected
            /\ args' = Append(selectedCards, card)
    /\ pc' = "toggleCard"
    /\ UNCHANGED <<ret, gameVars>>

\* page.tsx: processTurn(myPlayerId, cards, hand) when identifyHand accepts
handlePlayHand(cards) ==
    LET hand == identifyHand(cards)
    IN  IF hand \notin {NullHand, ThrownHand}
        THEN processTurn(myPlayerId, cards, hand, FALSE)
        ELSE UNCHANGED gameVars

\* a click on the play button: onPlayHand(selectedCards); setSelectedCards([])
handlePlay ==
    /\ canPlay
    /\ atTable
    /\ handlePlayHand(selectedCards)
    /\ args' = <<>>
    /\ pc' = "handlePlay"
    /\ ret' = selectedCards

\* a click on the pass button: processTurn(myPlayerId, null, null)
handlePass ==
    /\ canPass
    /\ atTable
    /\ processTurn(myPlayerId, NullCards, NullHand, FALSE)
    /\ pc' = "handlePass"
    /\ ret' = NullCards
    /\ UNCHANGED args

ToggleCard == \E card \in Cards : toggleCard(card)

InitTable ==
    /\ pc = "idle"
    /\ args = <<>>
    /\ ret = NullCards
    /\ players = [i \in Seats |-> PlayerOf(i, <<>>, i # 0, 0)]
    /\ currentPlayerIndex = 0
    /\ lastPlayedHand = NullHand
    /\ lastPlayerId = NoId
    /\ passCount = 0
    /\ winnerId = NoId
    /\ isStarted = FALSE

NextTable ==
    StartGame \/ BotTurn \/ TimeoutTurn \/ ToggleCard \/ handlePlay \/ handlePass

SpecTable == InitTable /\ [][NextTable]_vars

\* C28: the first hand laid on the table after handleStartGame contains
\* 3 of clubs, whoever plays it: a bot, the timeout or the human's play button.
C28_FirstHandHasClub3 ==
    [][(lastPlayedHand = NullHand /\ lastPlayedHand' # NullHand)
          => hasClub3(lastPlayedHand'.cards)]_vars

\* the human's play button called processTurn with a card that the human's
\* hand did not hold
playedMissingCard ==
    /\ pc' = "handlePlay"
    /\ \E i \in 1..Len(ret') : \A j \in 1..Len(me.hand) : me.hand[j] # ret'[i]

\* C29: a processTurn whose cards are not all in the acting player's hand
\* leaves the hands, lastPlayedHand, lastPlayerId, passCount and
\* currentPlayerIndex as they were.
C29_MissingCardChangesNothing ==
    [][playedMissingCard =>
          /\ \A i \in Seats : players'[i].hand = players[i].hand
          /\ UNCHANGED <<lastPlayedHand, lastPlayerId, passCount,
                         currentPlayerIndex>>]_vars

====
